---- MODULE Spec2Model ----
(***************************************************************************)
(* A model of the moderation orchestration code of vettly-docs:            *)
(*   - the React hook useModeration (packages/react/src/useModeration.ts), *)
(*   - the Discord bot's message handler, rate limiter and config store    *)
(*     (examples/discord-bot).                                             *)
(* The hook and the bot are different programs; a behaviour is an          *)
(* execution of one of them, named by the variable `program`.              *)
(***************************************************************************)
EXTENDS Integers, Sequences, FiniteSets, TLC

VARIABLES
  program,             \* which program the behaviour is an execution of
  now,                 \* Date.now() / the timer clock, in abstract milliseconds
  \* ---- useModeration ----
  enabled,             \* options.enabled
  hasClient,           \* clientRef.current !== null
  mounted,             \* the component that uses the hook is mounted
  debounceMs,          \* options.debounceMs
  result,              \* the hook's `result` state
  timeoutRef,          \* timeoutRef.current: handle of the last timer set (0: null)
  abortControllerRef,  \* abortControllerRef.current: the last controller made (0: null)
  timers,              \* the runtime's armed timers, [id, due]
  aborted,             \* controllers on which abort() was called
  inflight,            \* checks whose remote request has not settled yet
  checks,              \* history: the contents of the effective check() calls, in order
  issued,              \* history: the checks whose remote request started, in order
  notified,            \* history: the onCheck / onError calls, in order
  \* ---- Discord bot ----
  requests,            \* RateLimiter.requests: guild -> timestamps (a Map: absent keys are not in the domain)
  nextCleanup,         \* when the limiter's setInterval fires next
  configCache,         \* config-store's configCache: guild -> [config, timestamp]
  db,                  \* the discord_servers table: guild -> row (NoConfig: no row)
  hs,                  \* the running onMessageCreate calls, one per handler slot
  ws,                  \* the running config write (create/update/delete)
  last,                \* what the step just taken did, if it was a step of onMessageCreate
  joined,              \* the guilds the bot is a member of
  concurrency,         \* how many onMessageCreate calls the gateway lets overlap
  msgsLeft,            \* messages the gateway will still deliver
  writesLeft,          \* config writes the admins will still make
  admits,              \* history: guild -> the times isLimited admitted a call
  \* ---- policy decision engine and multi-item aggregator ----
  policy,              \* the policy document handed to PolicySchema
  scores,              \* the provider's category scores for one item (a partial map)
  loaded,              \* the outcome of loading the policy: status and parsed rules
  decision,            \* the Decision of the last evaluation
  items,               \* the content items submitted in one multi-item check
  perItem,             \* their per-item results, as far as they have come back
  aggregate,           \* the overall result of the multi-item check
  \* ---- ModeratedVideoUpload ----
  extractFramesCount,  \* props.extractFramesCount
  selected,            \* the File the user picked
  ui,                  \* the component's state: file, preview, thumbnail, duration, ...
  video,               \* the <video> element processFile created, and where processFile is
  seeks,               \* history: the assignments to video.currentTime
  rejects,             \* history: the onReject calls
  submitted,           \* history: the frames handed to check()
  vresult,             \* `result` of the component's useModeration
  removed,             \* handleRemove has run
  \* ---- ModeratedImageUpload ----
  image,               \* [file, reading]: the selection shown (0: none), the one FileReader reads
  picked,              \* history: per selection, the content of the file
  checkOf,             \* history: per selection, the check() call made for it (0: none yet)
  uploads,             \* history: the onUpload calls, [file, safe]
  \* ---- ModeratedTextarea ----
  blockUnsafe,         \* the blockUnsafe prop
  internalValue,       \* the textarea's value
  changes,             \* history: the onChange calls, [value, unsafe: result was unsafe]
  \* ---- Unity SDK ----
  failOpen,            \* settings.FailOpen
  moderated,           \* history: the ModerateTextAsync calls, [userId, content, exchange, result]
  \* ---- Discord bot: /setup ----
  setupState,          \* setup.ts setupState: guildId -> {policyPreset, userId}
  sessions,            \* per user: the interaction handler running for the user
  interactionsLeft,    \* interactions still to arrive
  \* ---- RateLimiter with and without sweeps ----
  unswept,             \* the requests map of a limiter whose cleanup() never runs
  answers              \* history: per isLimited call, [guild, at, swept, unswept]

hookVars == <<enabled, hasClient, mounted, debounceMs, result, timeoutRef, abortControllerRef,
              timers, aborted, inflight, checks, issued, notified>>

botVars == <<requests, nextCleanup, configCache, db, hs, ws, last, joined, concurrency, msgsLeft, writesLeft,
             admits>>

engineVars == <<policy, scores, loaded, decision, items, perItem, aggregate>>

videoVars == <<extractFramesCount, selected, ui, video, seeks, rejects, submitted,
               vresult, removed>>

widgetVars == <<image, picked, checkOf, uploads, blockUnsafe, internalValue, changes,
                failOpen, moderated>>

setupVars == <<setupState, sessions, interactionsLeft>>

sweepVars == <<unswept, answers>>

vars == <<program, now, hookVars, botVars, engineVars, videoVars, widgetVars, setupVars,
          sweepVars>>

\* ------------------------------------------------------------------ bounds
MaxTime == 3
MaxChecks == 3
\* The workload of a behaviour that exercises the rate limiter ...
MaxMessages == 3
\* ... and of one that exercises the config store.
MaxConfigMessages == 2
MaxWrites == 1
\* The longest policy, and the most items in one multi-item check.
MaxRules == 2
MaxItems == 3
\* The most ModerateTextAsync calls of a behaviour of the Unity SDK.
MaxCalls == 2

\* ------------------------------------------------------------ useModeration
NoError == "<null>"

\* The contents check() is called with: strings over a blank and two letters.
Contents == { <<>>, <<" ", " ">>, <<"a">>, <<" ", "b">> }

DebounceChoices == {0, 2}

RECURSIVE TrimStart(_)
TrimStart(s) ==
  IF s # <<>> /\ Head(s) = " " THEN TrimStart(Tail(s)) ELSE s

RECURSIVE TrimEnd(_)
TrimEnd(s) ==
  IF s # <<>> /\ s[Len(s)] = " " THEN TrimEnd(SubSeq(s, 1, Len(s) - 1)) ELSE s

\* String.prototype.trim
Trim(s) == TrimEnd(TrimStart(s))

\* typeof content === 'string' && !content.trim()
IsBlank(content) == Trim(content) = <<>>

\* The state useState is constructed with, and the state a blank check sets.
SafeResult ==
  [safe |-> TRUE, flagged |-> FALSE, action |-> "allow", categories |-> <<>>,
   isChecking |-> FALSE, error |-> NoError]

\* What the remote service answers for a content: the letter b is a violation.
Backend(content) ==
  IF \E i \in 1..Len(content) : content[i] = "b"
  THEN [safe |-> FALSE, flagged |-> TRUE, action |-> "block",
        categories |-> << [category |-> "hate_speech", violated |-> TRUE] >>]
  ELSE [safe |-> TRUE, flagged |-> FALSE, action |-> "allow", categories |-> <<>>]

\* /setup data: the users who run the flow, the presets of POLICY_OPTIONS
\* that they pick, the text channels they can choose for the log.
Users == {"u1", "u2"}
PolicyPresets == {"strict", "permissive"}
Channels == {"c1", "c2"}

\* No discord_servers row.
NoServer ==
  [present |-> FALSE, enabled |-> FALSE, policyPreset |-> "none", logChannelId |-> "none"]

\* No selection in setupState.
NoSelection == [policyPreset |-> "none", userId |-> "none"]

\* No interaction of the user is being handled. (id: the interaction handled
\* last, 0 for none.)
IdleSession ==
  [pc |-> "idle", id |-> 0, guild |-> "g1", state |-> NoSelection, logChannelId |-> "none", existing |-> NoServer, reply |-> "none"]

\* The bot process before any /setup interaction.
SetupIdle ==
  /\ setupState = [g \in {} |-> NoSelection]
  /\ sessions = [u \in Users |-> IdleSession]
  /\ interactionsLeft = 0

\* No limiter is being compared.
SweepIdle ==
  /\ unswept = [g \in {} |-> <<>>]
  /\ answers = <<>>

\* The upload and textarea components as mounted with nothing selected or
\* typed, and the Unity SDK initialized with nothing moderated.
WidgetsIdle ==
  /\ image = [file |-> 0, reading |-> 0]
  /\ picked = <<>>
  /\ checkOf = <<>>
  /\ uploads = <<>>
  /\ blockUnsafe = TRUE
  /\ internalValue = <<>>
  /\ changes = <<>>
  /\ failOpen = TRUE
  /\ moderated = <<>>

\* The hook as constructed (useState, useRef).
HookConstructed ==
  /\ mounted = TRUE
  /\ result = SafeResult
  /\ timeoutRef = 0
  /\ abortControllerRef = 0
  /\ timers = {}
  /\ aborted = {}
  /\ inflight = {}
  /\ checks = <<>>
  /\ issued = <<>>
  /\ notified = <<>>


\* ------------------------------------------------------------- Discord bot
Guilds == {"g1", "g2"}
\* The slots in which onMessageCreate calls run.
Handlers == {1, 2}

\* Abstract milliseconds: one unit stands for 30 s.  The singleton limiter is
\* new RateLimiter(100, 60_000); the model's limiter is new RateLimiter(2, 2).
MaxRequests == 2
WindowMs == 2
CleanupIntervalMs == 2
\* 5 * 60 * 1000 in the source, shortened so that an expiry happens within MaxTime
CACHE_TTL == 3

\* A row of discord_servers (the columns the handlers read), or no row.
NoConfig == [present |-> FALSE, enabled |-> FALSE, policyPreset |-> "none"]
Configs == { [present |-> TRUE, enabled |-> e, policyPreset |-> "balanced"] :
               e \in BOOLEAN }

\* The messages the gateway delivers.
Messages ==
  { [bot |-> TRUE,  inGuild |-> TRUE,  content |-> <<"a">>,      images |-> 0],
    [bot |-> FALSE, inGuild |-> FALSE, content |-> <<"a">>,      images |-> 0],
    [bot |-> FALSE, inGuild |-> TRUE,  content |-> <<" ", " ">>, images |-> 0],
    [bot |-> FALSE, inGuild |-> TRUE,  content |-> <<>>,         images |-> 1],
    [bot |-> FALSE, inGuild |-> TRUE,  content |-> <<"a">>,      images |-> 0] }

Actions == {"allow", "warn", "flag", "block"}

\* Mutant: the content test counts the untrimmed length.
HasTextUntrimmed(msg) == Len(msg.content) > 0

\* message.content.trim().length > 0
HasText(msg) == Len(Trim(msg.content)) > 0

\* Map.get(key) || []
Timestamps(g) == IF g \in DOMAIN requests THEN requests[g] ELSE <<>>

\* Map.set(key, value)
MapSet(map, key, value) ==
  [k \in DOMAIN map \cup {key} |-> IF k = key THEN value ELSE map[k]]

\* Map.delete(key)
MapDelete(map, key) == [k \in DOMAIN map \ {key} |-> map[k]]

\* Mutant: the filter keeps a window that is one time unit too short.
RecentRequestsShortWindow(timestamps, t) ==
  SelectSeq(timestamps, LAMBDA ts : t - ts < WindowMs - 1)

\* timestamps.filter(ts => now - ts < this.windowMs)
RecentRequests(timestamps, t) == SelectSeq(timestamps, LAMBDA ts : t - ts < WindowMs)

\* Mutant: the cap is compared with > instead of >=.
IsLimitedOffByOne(g, t) == Len(RecentRequests(Timestamps(g), t)) > MaxRequests

\* RateLimiter.isLimited: the value returned
IsLimited(g, t) == Len(RecentRequests(Timestamps(g), t)) >= MaxRequests

\* Mutant: the request is recorded before the cap is tested.
RequestsAfterIsLimitedEager(g, t) ==
  MapSet(requests, g, Append(RecentRequests(Timestamps(g), t), t))

\* RateLimiter.isLimited: the map it leaves behind
RequestsAfterIsLimited(g, t) ==
  IF IsLimited(g, t)
  THEN requests
  ELSE MapSet(requests, g, Append(RecentRequests(Timestamps(g), t), t))

\* Mutant: the sweep drops every guild.
RequestsAfterCleanupAll(t) == [g \in {} |-> <<>>]

\* Mutant: the sweep filters every list and keeps the guilds whose list is empty.
RequestsAfterCleanupKeepEmpty(t) ==
  [g \in DOMAIN requests |-> RecentRequests(requests[g], t)]

\* Mutant: the sweep filters with a window that is one time unit short.
RequestsAfterCleanupShortWindow(t) ==
  [g \in { k \in DOMAIN requests :
             SelectSeq(requests[k], LAMBDA ts : t - ts < WindowMs - 1) # <<>> }
     |-> SelectSeq(requests[g], LAMBDA ts : t - ts < WindowMs - 1)]

\* RateLimiter.cleanup: the map it leaves behind
RequestsAfterCleanup(t) ==
  [g \in { k \in DOMAIN requests : RecentRequests(requests[k], t) # <<>> }
     |-> RecentRequests(requests[g], t)]

\* Mutant: the expiry test is dropped.
CacheHitForever(g, t) == g \in DOMAIN configCache

\* cached && Date.now() - cached.timestamp < CACHE_TTL
CacheHit(g, t) == g \in DOMAIN configCache /\ t - configCache[g].timestamp < CACHE_TTL

\* A handler slot that is not running onMessageCreate.
IdleSlot ==
  [pc |-> "idle", guild |-> "g1", msg |-> CHOOSE m \in Messages : m.bot,
   config |-> NoConfig]

\* Nothing handled yet.
NoEffects ==
  [guild |-> "g1", msg |-> CHOOSE m \in Messages : m.bot, step |-> "none",
   config |-> NoConfig, manage |-> FALSE, deleted |-> FALSE, logged |-> FALSE]

\* The bot as constructed (module initialisation of rate-limiter.ts and config-store.ts).
BotConstructed ==
  /\ requests = [g \in {} |-> <<>>]
  /\ nextCleanup = CleanupIntervalMs
  /\ configCache = [g \in {} |-> NoConfig]
  /\ hs = [h \in Handlers |-> IdleSlot]
  /\ ws = [pc |-> "idle", guild |-> "g1"]
  /\ last = NoEffects
  /\ admits = [g \in Guilds |-> <<>>]


\* ------------------------------------- policy engine and aggregator: data
\* CategorySchema
Categories == {"hate_speech", "harassment", "violence", "self_harm", "sexual",
               "spam", "profanity", "scam", "illegal"}

\* Scores and thresholds in hundredths: 50 stands for 0.5.
ScoreValues == {49, 50}

\* The rules policies are written with.  priority is optional: {} when left out.
WellFormedRules ==
  { [category |-> c, threshold |-> t, action |-> a, priority |-> {}] :
      c \in {"hate_speech", "spam"}, t \in {0, 50}, a \in Actions }
OtherRules ==
  { [category |-> "hate_speech", threshold |-> 100, action |-> "flag",  priority |-> {0}],
    [category |-> "hate_speech", threshold |-> 50,  action |-> "warn",  priority |-> {1}],
    [category |-> "hate_speech", threshold |-> 101, action |-> "block", priority |-> {}],
    [category |-> "spam",        threshold |-> -1,  action |-> "block", priority |-> {}],
    [category |-> "nudity",      threshold |-> 50,  action |-> "block", priority |-> {}] }
RuleInputs == WellFormedRules \cup OtherRules

\* Partial<Record<Category, number>> over the categories the rules name.
ScoreSets ==
  UNION { [D -> ScoreValues] : D \in SUBSET {"hate_speech", "spam"} }

NotLoaded == [status |-> "none", rules |-> <<>>]
NoDecision == [safe |-> TRUE, action |-> "none", triggeredCategories |-> <<>>]
NoAggregate == [safe |-> TRUE, action |-> "none", results |-> <<>>]

\* Nothing loaded, evaluated or submitted.
EngineIdle ==
  /\ policy = <<>>
  /\ scores = [c \in {} |-> 0]
  /\ loaded = NotLoaded
  /\ decision = NoDecision
  /\ items = <<>>
  /\ perItem = <<>>
  /\ aggregate = NoAggregate


\* ---------------------------------------------- ModeratedVideoUpload: data
\* Defaults of the props maxSizeMB and maxDurationSeconds.
MaxSizeMB == 100
MaxDurationSeconds == 300
AcceptedFormats == {"video/mp4", "video/webm", "video/quicktime"}
\* The values the prop extractFramesCount is given (3 is its default).
FrameCounts == {1, 3, 5}

\* The files a user picks: MIME type, size in MB, duration in seconds, and which
\* of the frames an extraction takes show a violation.
Files ==
  { [type |-> ty, sizeMB |-> sz, duration |-> d, unsafe |-> u] :
      ty \in {"video/mp4", "image/png"}, sz \in {100, 101},
      d \in {5, 60, 300, 301}, u \in SUBSET {1, 2} }

NoFile == [type |-> "none", sizeMB |-> 0, duration |-> 0, unsafe |-> {}]

\* A number of seconds or percent as a fraction.
Frac(n, d) == [num |-> n, den |-> d]

\* The component's state after the first render, and after handleRemove.
UiCleared ==
  [file |-> FALSE, preview |-> FALSE, thumbnail |-> FALSE, duration |-> 0,
   uploadError |-> NoError, frameExtractionProgress |-> Frac(0, 1), processingStage |-> ""]

\* No <video> element yet. (error: the element has fired its error event
\* while extractFrames waits for a seek.)
NoVideo == [pc |-> "none", i |-> 0, frames |-> <<>>, urlRevoked |-> FALSE, error |-> FALSE]

\* The component as mounted.
VideoMounted ==
  /\ selected = NoFile
  /\ ui = UiCleared
  /\ video = NoVideo
  /\ seeks = <<>>
  /\ rejects = <<>>
  /\ submitted = <<>>
  /\ vresult = SafeResult
  /\ removed = FALSE

InitHook ==
  /\ program = "react"
  /\ SetupIdle /\ SweepIdle
  /\ now = 0
  /\ enabled \in BOOLEAN
  /\ hasClient \in BOOLEAN
  /\ debounceMs \in DebounceChoices
  /\ HookConstructed
  /\ WidgetsIdle
  /\ BotConstructed
  /\ EngineIdle
  /\ VideoMounted /\ extractFramesCount = 3
  /\ db = [g \in Guilds |-> NoConfig]
  /\ joined = {} /\ concurrency = 0 /\ msgsLeft = 0 /\ writesLeft = 0

\* The bot in guilds that are set up and enabled, with messages coming in:
\* one after the other in two guilds, or overlapping in one guild.
InitLimiter ==
  /\ program = "bot"
  /\ SetupIdle /\ SweepIdle
  /\ now = 0
  /\ enabled = TRUE /\ hasClient = TRUE /\ debounceMs = 0
  /\ HookConstructed
  /\ WidgetsIdle
  /\ BotConstructed
  /\ EngineIdle
  /\ VideoMounted /\ extractFramesCount = 3
  /\ \/ joined = Guilds /\ concurrency = 1
     \/ joined = {"g1"} /\ concurrency = 2
  /\ db = [g \in Guilds |-> [present |-> TRUE, enabled |-> TRUE, policyPreset |-> "balanced"]]
  /\ msgsLeft = MaxMessages
  /\ writesLeft = 0

\* The bot in one guild, whose config the admins create, update and delete.
InitConfig ==
  /\ program = "bot"
  /\ SetupIdle /\ SweepIdle
  /\ now = 0
  /\ enabled = TRUE /\ hasClient = TRUE /\ debounceMs = 0
  /\ HookConstructed
  /\ WidgetsIdle
  /\ BotConstructed
  /\ EngineIdle
  /\ VideoMounted /\ extractFramesCount = 3
  /\ joined = {"g1"} /\ concurrency = 2
  /\ db \in [Guilds -> {NoConfig} \cup Configs]
  /\ \A g \in Guilds \ joined : db[g] = NoConfig
  /\ msgsLeft = MaxConfigMessages
  /\ writesLeft = MaxWrites

\* How often a check occurs in the request and notification histories.
CountRequests(log, id) == Cardinality({ i \in 1..Len(log) : log[i] = id })
CountNotifications(log, id) == Cardinality({ i \in 1..Len(log) : log[i].id = id })
RequestsOf(id) == CountRequests(issued, id)
NotificationsOf(id) == CountNotifications(notified, id)

\* The programs that run the hook: a component that calls check itself, and
\* the image upload and the textarea, which call it for their user.
HookPrograms == {"react", "image", "textarea"}

\* abortControllerRef.current.abort(), when there is a controller
Abort == IF abortControllerRef # 0 THEN aborted \cup {abortControllerRef} ELSE aborted

\* Mutant: check() does not clear the pending timer.
ClearTimeoutForgotten == timers

\* clearTimeout(timeoutRef.current): a no-op for a timer that has fired
ClearTimeout == { t \in timers : t.id # timeoutRef }

\* The controller whose signal the remote request of check `id` is given:
\* clientRef.current.check(checkRequest) passes none, and ModerationClient.fetch
\* uses only AbortSignal.timeout.
RequestSignal(id) == 0

\* error.name of a rejected request
FailureNames(id) ==
  {"Error", "TimeoutError"} \cup
    (IF RequestSignal(id) \in aborted THEN {"AbortError"} ELSE {})

\* error.message of a rejected request
FailureMessages == {"", "Request timed out"}

\* error.message || 'Failed to check content'
ErrorText(msg) == IF msg = "" THEN "Failed to check content" ELSE msg

\* check(content) while disabled or without a client: returns at once.
CheckIgnored(content) ==
  /\ program = "react" /\ mounted
  /\ ~enabled \/ ~hasClient
  /\ UNCHANGED vars

\* check(content) with blank content: cancel, clear, set the safe result.
CheckBlank(content) ==
  /\ program = "react" /\ mounted
  /\ enabled /\ hasClient
  /\ Len(checks) < MaxChecks
  /\ IsBlank(content)
  /\ aborted' = Abort
  /\ timers' = ClearTimeout
  /\ result' = SafeResult
  /\ checks' = Append(checks, content)
  /\ UNCHANGED <<botVars, engineVars, setupVars, sweepVars, videoVars, widgetVars>>
  /\ UNCHANGED <<program, now, enabled, hasClient, mounted, debounceMs, timeoutRef,
                 abortControllerRef, inflight, issued, notified>>

\* check(content) with content to moderate: cancel, clear, arm the debounce timer.
CheckContent(content) ==
  /\ program = "react" /\ mounted
  /\ enabled /\ hasClient
  /\ Len(checks) < MaxChecks
  /\ ~IsBlank(content)
  /\ aborted' = Abort
  /\ result' = [result EXCEPT !.isChecking = TRUE, !.error = NoError]
  /\ timeoutRef' = Len(checks) + 1
  /\ timers' = ClearTimeout \cup {[id |-> Len(checks) + 1, due |-> now + debounceMs]}
  /\ checks' = Append(checks, content)
  /\ UNCHANGED <<botVars, engineVars, setupVars, sweepVars, videoVars, widgetVars>>
  /\ UNCHANGED <<program, now, enabled, hasClient, mounted, debounceMs,
                 abortControllerRef, inflight, issued, notified>>

\* check(content) as a component's handler calls it: what it does to result,
\* timeoutRef, the timers, the aborted controllers and the history of calls.
Check(content) ==
  IF ~enabled \/ ~hasClient
  THEN UNCHANGED <<result, timeoutRef, timers, aborted, checks>>
  ELSE /\ aborted' = Abort
       /\ checks' = Append(checks, content)
       /\ IF IsBlank(content)
          THEN /\ timers' = ClearTimeout
               /\ result' = SafeResult
               /\ UNCHANGED timeoutRef
          ELSE /\ result' = [result EXCEPT !.isChecking = TRUE, !.error = NoError]
               /\ timeoutRef' = Len(checks) + 1
               /\ timers' = ClearTimeout \cup {[id |-> Len(checks) + 1, due |-> now + debounceMs]}

\* The debounce timer of check `id` fires: a new controller, and the request starts.
TimerFire(id) ==
  /\ program \in HookPrograms
  /\ \E t \in timers : t.id = id /\ t.due <= now
  /\ timers' = { t \in timers : t.id # id }
  /\ abortControllerRef' = id
  /\ inflight' = inflight \cup {id}
  /\ issued' = Append(issued, id)
  /\ UNCHANGED <<botVars, engineVars, setupVars, sweepVars, videoVars, widgetVars>>
  /\ UNCHANGED <<program, now, enabled, hasClient, mounted, debounceMs, result, timeoutRef,
                 aborted, checks, notified>>

\* The request of check `id` resolves: set the result, call onCheck. (React
\* drops the state update of a component that is no longer mounted; the
\* callback is an ordinary call.)
RequestResolves(id) ==
  /\ program \in HookPrograms
  /\ id \in inflight
  /\ RequestSignal(id) \notin aborted
  /\ inflight' = inflight \ {id}
  /\ LET response == Backend(checks[id])
     IN  result' = IF mounted
                   THEN [safe |-> response.safe, flagged |-> response.flagged,
                         action |-> response.action, categories |-> response.categories,
                         isChecking |-> FALSE, error |-> NoError]
                   ELSE result
  /\ notified' = Append(notified, [id |-> id, kind |-> "onCheck"])
  /\ UNCHANGED <<botVars, engineVars, setupVars, sweepVars, videoVars, widgetVars>>
  /\ UNCHANGED <<program, now, enabled, hasClient, mounted, debounceMs, timeoutRef,
                 abortControllerRef, timers, aborted, checks, issued>>

\* Mutant: a failure resets the decision to safe (fail-open).
RequestRejectsFailOpen(id, name, msg) ==
  /\ program = "react"
  /\ id \in inflight
  /\ name \in FailureNames(id)
  /\ inflight' = inflight \ {id}
  /\ result' = [SafeResult EXCEPT !.error = ErrorText(msg)]
  /\ notified' = Append(notified, [id |-> id, kind |-> "onError"])
  /\ UNCHANGED <<botVars, engineVars, setupVars, sweepVars, videoVars, widgetVars>>
  /\ UNCHANGED <<program, now, enabled, hasClient, mounted, debounceMs, timeoutRef,
                 abortControllerRef, timers, aborted, checks, issued>>

\* Mutant: a failed request is sent again.
RequestRejectsRetry(id, name, msg) ==
  /\ program = "react"
  /\ id \in inflight
  /\ name \in FailureNames(id)
  /\ RequestsOf(id) < 2
  /\ issued' = Append(issued, id)
  /\ result' = [result EXCEPT !.isChecking = FALSE, !.error = ErrorText(msg)]
  /\ notified' = Append(notified, [id |-> id, kind |-> "onError"])
  /\ UNCHANGED <<botVars, engineVars, setupVars, sweepVars, videoVars, widgetVars>>
  /\ UNCHANGED <<program, now, enabled, hasClient, mounted, debounceMs, timeoutRef,
                 abortControllerRef, timers, aborted, inflight, checks>>

\* The request of check `id` rejects: an AbortError is dropped; any other error
\* sets result.error, keeps the decision, and calls onError.
RequestRejects(id, name, msg) ==
  /\ program \in HookPrograms
  /\ id \in inflight
  /\ name \in FailureNames(id)
  /\ inflight' = inflight \ {id}
  /\ IF name = "AbortError"
     THEN UNCHANGED <<result, notified>>
     ELSE /\ result' = IF mounted
                        THEN [result EXCEPT !.isChecking = FALSE, !.error = ErrorText(msg)]
                        ELSE result
          /\ notified' = Append(notified, [id |-> id, kind |-> "onError"])
  /\ UNCHANGED <<botVars, engineVars, setupVars, sweepVars, videoVars, widgetVars>>
  /\ UNCHANGED <<program, now, enabled, hasClient, mounted, debounceMs, timeoutRef,
                 abortControllerRef, timers, aborted, checks, issued>>

\* The component unmounts: the cleanup of the hook's last effect clears the
\* pending timer and aborts the current controller.
Unmount ==
  /\ program = "react" /\ mounted
  /\ mounted' = FALSE
  /\ timers' = ClearTimeout
  /\ aborted' = Abort
  /\ UNCHANGED <<botVars, engineVars, setupVars, sweepVars, videoVars, widgetVars>>
  /\ UNCHANGED <<program, now, enabled, hasClient, debounceMs, result, timeoutRef,
                 abortControllerRef, inflight, checks, issued, notified>>

\* Time passes, by one unit; a setTimeout or setInterval callback that is due
\* runs before the clock shows the next unit.
\* (The unit is long against a database or Discord round trip: an
\* interaction handler of /setup that has started ends within the unit.)
Tick ==
  /\ now < MaxTime
  /\ \A t \in timers : t.due > now
  /\ program = "bot" => now < nextCleanup
  /\ program = "setup" => \A u \in Users : sessions[u].pc = "idle"
  /\ now' = now + 1
  /\ last' = NoEffects
  /\ UNCHANGED <<program, hookVars, engineVars, setupVars, sweepVars, videoVars, widgetVars, requests, nextCleanup, configCache, db, hs, ws,
                 joined, concurrency, msgsLeft, writesLeft, admits>>

NextHook ==
  \/ \E c \in Contents : CheckIgnored(c)
  \/ \E c \in Contents : CheckBlank(c)
  \/ \E c \in Contents : CheckContent(c)
  \/ \E id \in 1..MaxChecks : TimerFire(id)
  \/ \E id \in 1..MaxChecks : RequestResolves(id)
  \/ \E id \in 1..MaxChecks, name \in {"Error", "TimeoutError", "AbortError"},
        msg \in FailureMessages : RequestRejects(id, name, msg)
  \/ Tick

SpecHook == InitHook /\ [][NextHook]_vars

\* The hook in a component that may unmount.
NextUnmount == NextHook \/ Unmount

SpecUnmount == InitHook /\ [][NextUnmount]_vars

\* --------------------------------------------------- Discord bot: actions
\* The effects of one onMessageCreate step.
Effects(slot, step) ==
  [guild |-> slot.guild, msg |-> slot.msg, step |-> step,
   config |-> slot.config, manage |-> FALSE, deleted |-> FALSE, logged |-> FALSE]

\* onMessageCreate from the line after `await getServerConfig(...)` to the call of
\* vettly.checkMultimodal: the enabled test, the content test, the rate limiter.
ContinueWithConfig(h, slot) ==
  IF ~(slot.config.present /\ slot.config.enabled)
  THEN /\ hs' = [hs EXCEPT ![h] = IdleSlot]
       /\ last' = Effects(slot, "disabled")
       /\ UNCHANGED <<requests, admits>>
  ELSE IF ~HasText(slot.msg) /\ slot.msg.images = 0
  THEN /\ hs' = [hs EXCEPT ![h] = IdleSlot]
       /\ last' = Effects(slot, "empty")
       /\ UNCHANGED <<requests, admits>>
  ELSE /\ requests' = RequestsAfterIsLimited(slot.guild, now)
       /\ IF IsLimited(slot.guild, now)
          THEN /\ hs' = [hs EXCEPT ![h] = IdleSlot]
               /\ last' = Effects(slot, "limited")
               /\ UNCHANGED admits
          ELSE /\ hs' = [hs EXCEPT ![h] = [slot EXCEPT !.pc = "calling"]]
               /\ last' = Effects(slot, "apiCall")
               /\ admits' = [admits EXCEPT ![slot.guild] = Append(@, now)]

\* onMessageCreate is called (in the first free slot): bots and DMs are skipped;
\* getServerConfig answers from the cache, or sends the SELECT.
MessageCreate(h, g, msg) ==
  /\ program = "bot"
  /\ hs[h].pc = "idle"
  /\ \A k \in Handlers : hs[k].pc = "idle" => h <= k
  /\ Cardinality({ k \in Handlers : hs[k].pc # "idle" }) < concurrency
  /\ g \in joined
  /\ msgsLeft > 0
  /\ msgsLeft' = msgsLeft - 1
  /\ LET slot == [IdleSlot EXCEPT !.guild = g, !.msg = msg]
     IN  IF msg.bot \/ ~msg.inGuild
         THEN /\ last' = Effects(slot, "botOrDm")
              /\ UNCHANGED <<hs, requests, admits>>
         ELSE IF CacheHit(g, now)
         THEN /\ ContinueWithConfig(h, [slot EXCEPT !.config = configCache[g].config])
         ELSE /\ hs' = [hs EXCEPT ![h] = [slot EXCEPT !.pc = "dbQuery"]]
              /\ last' = Effects(slot, "dbQuery")
              /\ UNCHANGED <<requests, admits>>
  /\ UNCHANGED <<program, now, hookVars, engineVars, setupVars, sweepVars, videoVars, widgetVars, nextCleanup, configCache, db, ws, joined,
                 concurrency, writesLeft>>

\* The database runs the SELECT of getServerConfig.
DbSelect(h) ==
  /\ program = "bot"
  /\ hs[h].pc = "dbQuery"
  /\ hs' = [hs EXCEPT ![h].pc = "dbResult", ![h].config = db[hs[h].guild]]
  /\ last' = NoEffects
  /\ UNCHANGED <<program, now, hookVars, engineVars, setupVars, sweepVars, videoVars, widgetVars, requests, nextCleanup, configCache, db, ws,
                 joined, concurrency, msgsLeft, writesLeft, admits>>

\* getServerConfig resumes with the row: it stores it in the cache and returns it,
\* and onMessageCreate goes on.
ConfigFetched(h) ==
  /\ program = "bot"
  /\ hs[h].pc = "dbResult"
  /\ configCache' = MapSet(configCache, hs[h].guild,
                           [config |-> hs[h].config, timestamp |-> now])
  /\ ContinueWithConfig(h, hs[h])
  /\ UNCHANGED <<program, now, hookVars, engineVars, setupVars, sweepVars, videoVars, widgetVars, nextCleanup, db, ws, joined, concurrency, msgsLeft, writesLeft>>

\* The result branches of onMessageCreate with the block and the flag branch
\* merged: a flagged message is deleted as a blocked one is.
ApiReturnsDeleteFlagged(h, action, canDelete) ==
  /\ program = "bot"
  /\ hs[h].pc = "calling"
  /\ hs' = [hs EXCEPT ![h] = IdleSlot]
  /\ last' = [Effects(hs[h], action) EXCEPT
                !.manage = canDelete,
                !.deleted = (action \in {"block", "flag"} /\ canDelete),
                !.logged = (action \in {"block", "flag"})]
  /\ UNCHANGED <<program, now, hookVars, engineVars, setupVars, sweepVars, videoVars, widgetVars, requests, nextCleanup, configCache, db, ws,
                 joined, concurrency, msgsLeft, writesLeft, admits>>

\* vettly.checkMultimodal returns. block: message.delete() when the bot holds
\* Manage Messages in the channel (canDelete), then sendModLog(..., 'blocked');
\* flag: sendModLog(..., 'flagged'); allow and warn: nothing. `logged` records
\* that sendModLog is called.
ApiReturns(h, action, canDelete) ==
  /\ program = "bot"
  /\ hs[h].pc = "calling"
  /\ hs' = [hs EXCEPT ![h] = IdleSlot]
  /\ last' = [Effects(hs[h], action) EXCEPT
                !.manage = canDelete,
                !.deleted = (action = "block" /\ canDelete),
                !.logged = (action \in {"block", "flag"})]
  /\ UNCHANGED <<program, now, hookVars, engineVars, setupVars, sweepVars, videoVars, widgetVars, requests, nextCleanup, configCache, db, ws,
                 joined, concurrency, msgsLeft, writesLeft, admits>>

\* Mutant: the catch gives the rate-limit slot of the failed call back.
ApiThrowsReleasesSlot(h) ==
  /\ program = "bot"
  /\ hs[h].pc = "calling"
  /\ hs' = [hs EXCEPT ![h] = IdleSlot]
  /\ last' = Effects(hs[h], "threw")
  /\ requests' = IF hs[h].guild \in DOMAIN requests /\ requests[hs[h].guild] # <<>>
                 THEN [requests EXCEPT ![hs[h].guild] = SubSeq(@, 1, Len(@) - 1)]
                 ELSE requests
  /\ UNCHANGED <<program, now, hookVars, engineVars, setupVars, sweepVars, videoVars, widgetVars, nextCleanup, configCache, db, ws,
                 joined, concurrency, msgsLeft, writesLeft, admits>>

\* vettly.checkMultimodal throws: the handler logs the error and returns.
ApiThrows(h) ==
  /\ program = "bot"
  /\ hs[h].pc = "calling"
  /\ hs' = [hs EXCEPT ![h] = IdleSlot]
  /\ last' = Effects(hs[h], "threw")
  /\ UNCHANGED <<program, now, hookVars, engineVars, setupVars, sweepVars, videoVars, widgetVars, requests, nextCleanup, configCache, db, ws,
                 joined, concurrency, msgsLeft, writesLeft, admits>>

\* createServerConfig / updateServerConfig / deleteServerConfig: the database
\* runs the statement (an INSERT for a guild that has a row fails on the unique
\* guild_id, an UPDATE for a guild without a row changes nothing).
ConfigWrite(op, g, cfg) ==
  /\ program = "bot"
  /\ ws.pc = "idle"
  /\ g \in joined
  /\ writesLeft > 0
  /\ writesLeft' = writesLeft - 1
  /\ \/ /\ op = "create" /\ ~db[g].present
        /\ db' = [db EXCEPT ![g] = [cfg EXCEPT !.enabled = TRUE]]
        /\ ws' = [pc |-> "written", guild |-> g]
     \/ /\ op = "create" /\ db[g].present
        /\ UNCHANGED <<db, ws>>
     \/ /\ op = "update"
        /\ db' = [db EXCEPT ![g] = IF db[g].present THEN cfg ELSE db[g]]
        /\ ws' = [pc |-> "written", guild |-> g]
     \/ /\ op = "delete"
        /\ db' = [db EXCEPT ![g] = NoConfig]
        /\ ws' = [pc |-> "written", guild |-> g]
  /\ last' = NoEffects
  /\ UNCHANGED <<program, now, hookVars, engineVars, setupVars, sweepVars, videoVars, widgetVars, requests, nextCleanup, configCache, hs,
                 joined, concurrency, msgsLeft, admits>>

\* The write resumes after the statement: configCache.delete(guildId).
ConfigInvalidate ==
  /\ program = "bot"
  /\ ws.pc = "written"
  /\ configCache' = MapDelete(configCache, ws.guild)
  /\ ws' = [ws EXCEPT !.pc = "idle"]
  /\ last' = NoEffects
  /\ UNCHANGED <<program, now, hookVars, engineVars, setupVars, sweepVars, videoVars, widgetVars, requests, nextCleanup, db, hs,
                 joined, concurrency, msgsLeft, writesLeft, admits>>

\* The limiter's setInterval callback.
Cleanup ==
  /\ program = "bot"
  /\ now >= nextCleanup
  /\ requests' = RequestsAfterCleanup(now)
  /\ nextCleanup' = nextCleanup + CleanupIntervalMs
  /\ last' = NoEffects
  /\ UNCHANGED <<program, now, hookVars, engineVars, setupVars, sweepVars, videoVars, widgetVars, configCache, db, hs, ws, joined, concurrency, msgsLeft, writesLeft,
                 admits>>

NextBot ==
  \/ \E h \in Handlers, g \in Guilds, msg \in Messages : MessageCreate(h, g, msg)
  \/ \E h \in Handlers : DbSelect(h)
  \/ \E h \in Handlers : ConfigFetched(h)
  \/ \E h \in Handlers, action \in Actions :
        \E canDelete \in (IF action = "block" THEN BOOLEAN ELSE {TRUE}) :
           ApiReturns(h, action, canDelete)
  \/ \E h \in Handlers : ApiThrows(h)
  \/ \E op \in {"create", "update", "delete"}, g \in Guilds, cfg \in Configs :
        ConfigWrite(op, g, cfg)
  \/ ConfigInvalidate
  \/ Cleanup
  \/ Tick

\* The bot without the admins' writes.
NextLimiter ==
  \/ \E h \in Handlers, g \in Guilds, msg \in Messages : MessageCreate(h, g, msg)
  \/ \E h \in Handlers : DbSelect(h)
  \/ \E h \in Handlers : ConfigFetched(h)
  \/ \E h \in Handlers, action \in Actions :
        \E canDelete \in (IF action = "block" THEN BOOLEAN ELSE {TRUE}) :
           ApiReturns(h, action, canDelete)
  \/ \E h \in Handlers : ApiThrows(h)
  \/ Cleanup
  \/ Tick

SpecLimiter == InitLimiter /\ [][NextLimiter]_vars

SpecConfig == InitConfig /\ [][NextBot]_vars


\* --------------------------------- policy engine and aggregator: operations
\* Every program but the one a behaviour runs stays as constructed.
OthersConstructed ==
  /\ now = 0
  /\ enabled = TRUE /\ hasClient = TRUE /\ debounceMs = 0
  /\ HookConstructed
  /\ WidgetsIdle
  /\ BotConstructed
  /\ db = [g \in Guilds |-> NoConfig]
  /\ joined = {} /\ concurrency = 0 /\ msgsLeft = 0 /\ writesLeft = 0

\* ... and so does the upload component.
VideoUnused == VideoMounted /\ extractFramesCount = 3

\* priority: z.number().optional().default(0)
PriorityOf(r) == IF r.priority = {} THEN 0 ELSE CHOOSE n \in r.priority : TRUE

\* RuleSchema: the category enum, threshold min(0).max(1), the action enum
RuleSchemaAccepts(r) ==
  /\ r.category \in Categories
  /\ r.threshold >= 0 /\ r.threshold <= 100
  /\ r.action \in Actions

\* PolicySchema: rules: z.array(RuleSchema)
PolicySchemaAccepts(p) == \A i \in 1..Len(p) : RuleSchemaAccepts(p[i])

\* The rules PolicySchema.parse returns: defaults filled in.
ParsedRules(p) == [i \in 1..Len(p) |-> [p[i] EXCEPT !.priority = PriorityOf(p[i])]]

\* The explicit severity table: block=3, flag=2, warn=1, allow=0.
Severity(a) ==
  CASE a = "block" -> 3 [] a = "flag" -> 2 [] a = "warn" -> 1 [] OTHER -> 0

\* The position in the declaration z.enum(['block', 'warn', 'flag', 'allow']), reversed.
DeclarationRank(a) ==
  CASE a = "block" -> 3 [] a = "warn" -> 2 [] a = "flag" -> 1 [] OTHER -> 0

\* Mutant: severity read off the enum's declaration order.
MoreSevereByDeclaration(a, b) == IF DeclarationRank(b) > DeclarationRank(a) THEN b ELSE a

\* The more severe of two actions.
MoreSevere(a, b) == IF Severity(b) > Severity(a) THEN b ELSE a

\* The score of a category, 0 if the provider reported none.
ScoreOf(S, c) == IF c \in DOMAIN S THEN S[c] ELSE 0

\* Mutant: the boundary is exclusive.
TriggersAbove(score, threshold) == score > threshold

\* A rule triggers iff score >= threshold.
Triggers(score, threshold) == score >= threshold

\* The decision engine's pass over the rules, from rule i on.
RECURSIVE EvaluateFrom(_, _, _, _)
EvaluateFrom(rules, S, i, acc) ==
  IF i > Len(rules) THEN acc
  ELSE LET r == rules[i]
           score == ScoreOf(S, r.category)
       IN  IF Triggers(score, r.threshold)
           THEN EvaluateFrom(rules, S, i + 1,
                  [safe |-> acc.safe /\ r.action \notin {"block", "flag"},
                   action |-> MoreSevere(acc.action, r.action),
                   triggeredCategories |->
                     Append(acc.triggeredCategories,
                            [category |-> r.category, score |-> score,
                             threshold |-> r.threshold])])
           ELSE EvaluateFrom(rules, S, i + 1, acc)

\* evaluate(P, S)
EvaluatePolicy(rules, S) ==
  EvaluateFrom(rules, S, 1, [safe |-> TRUE, action |-> "allow", triggeredCategories |-> <<>>])

\* A policy document and the scores of one item arrive.
InitPolicy ==
  /\ program = "policy"
  /\ SetupIdle /\ SweepIdle
  /\ OthersConstructed
  /\ policy \in UNION { [1..n -> RuleInputs] : n \in 0..MaxRules }
  /\ scores \in ScoreSets
  /\ loaded = NotLoaded
  /\ decision = NoDecision
  /\ items = <<>> /\ perItem = <<>> /\ aggregate = NoAggregate
  /\ VideoUnused

\* The policy is loaded: PolicySchema.safeParse.
LoadPolicy ==
  /\ program = "policy"
  /\ loaded.status = "none"
  /\ loaded' = IF PolicySchemaAccepts(policy)
               THEN [status |-> "accepted", rules |-> ParsedRules(policy)]
               ELSE [status |-> "rejected", rules |-> <<>>]
  /\ UNCHANGED <<program, now, hookVars, botVars, videoVars, setupVars, sweepVars, widgetVars, policy, scores, decision,
                 items, perItem, aggregate>>

\* The item is evaluated under the loaded policy.
Evaluate ==
  /\ program = "policy"
  /\ loaded.status = "accepted"
  /\ decision = NoDecision
  /\ decision' = EvaluatePolicy(loaded.rules, scores)
  /\ UNCHANGED <<program, now, hookVars, botVars, videoVars, setupVars, sweepVars, widgetVars, policy, scores, loaded,
                 items, perItem, aggregate>>

NextPolicy == LoadPolicy \/ Evaluate

SpecPolicy == InitPolicy /\ [][NextPolicy]_vars

\* The per-item results a multi-item check can come back with (safe, action).
ItemDecisions ==
  { [safe |-> TRUE,  action |-> "allow"],
    [safe |-> TRUE,  action |-> "warn"],
    [safe |-> FALSE, action |-> "warn"],
    [safe |-> FALSE, action |-> "flag"],
    [safe |-> FALSE, action |-> "block"] }

\* The items of a request: the text first, then the images.
ItemsOf(n) == [i \in 1..n |-> [ordinal |-> i, kind |-> IF i = 1 THEN "text" ELSE "image"]]

\* Mutant: the per-item results are reported in the order they came back.
InArrivalOrder(its, results) == results

\* The per-item results put in the order of the items they belong to.
InSubmissionOrder(its, results) ==
  [i \in 1..Len(its) |->
     CHOOSE d \in { results[k] : k \in 1..Len(results) } : d.ordinal = its[i].ordinal]

\* The aggregator's pass over the per-item results, from result i on.
RECURSIVE AggregateFrom(_, _, _)
AggregateFrom(results, i, acc) ==
  IF i > Len(results) THEN acc
  ELSE AggregateFrom(results, i + 1,
         [safe |-> acc.safe /\ results[i].safe,
          action |-> MoreSevere(acc.action, results[i].action)])

\* aggregate(items, decisions)
AggregateDecisions(its, results) ==
  LET ordered == InSubmissionOrder(its, results)
      overall == AggregateFrom(ordered, 1, [safe |-> TRUE, action |-> "allow"])
  IN  [safe |-> overall.safe, action |-> overall.action, results |-> ordered]

\* A multi-item check is submitted.
InitAggregate ==
  /\ program = "aggregate"
  /\ SetupIdle /\ SweepIdle
  /\ OthersConstructed
  /\ policy = <<>> /\ scores = [c \in {} |-> 0]
  /\ loaded = NotLoaded /\ decision = NoDecision
  /\ \E n \in 1..MaxItems : items = ItemsOf(n)
  /\ perItem = <<>>
  /\ aggregate = NoAggregate
  /\ VideoUnused

\* The check of item i comes back.
ItemChecked(i, d) ==
  /\ program = "aggregate"
  /\ i \in 1..Len(items)
  /\ \A k \in 1..Len(perItem) : perItem[k].ordinal # items[i].ordinal
  /\ perItem' = Append(perItem, [ordinal |-> items[i].ordinal, safe |-> d.safe,
                                 action |-> d.action])
  /\ UNCHANGED <<program, now, hookVars, botVars, videoVars, setupVars, sweepVars, widgetVars, policy, scores, loaded, decision,
                 items, aggregate>>

\* Every item has its result: the overall result is formed.
Aggregate ==
  /\ program = "aggregate"
  /\ Len(perItem) = Len(items)
  /\ aggregate = NoAggregate
  /\ aggregate' = AggregateDecisions(items, perItem)
  /\ UNCHANGED <<program, now, hookVars, botVars, videoVars, setupVars, sweepVars, widgetVars, policy, scores, loaded, decision,
                 items, perItem>>

NextAggregate ==
  \/ \E i \in 1..MaxItems, d \in ItemDecisions : ItemChecked(i, d)
  \/ Aggregate

SpecAggregate == InitAggregate /\ [][NextAggregate]_vars

\* --------------------------------------- ModeratedVideoUpload: operations
\* Mutant: validateFile tests the type only.
ValidateFileTypeOnly(f) ==
  IF f.type \notin AcceptedFormats THEN "Invalid file type" ELSE NoError

\* validateFile: the error message, or null
ValidateFile(f) ==
  IF f.type \notin AcceptedFormats THEN "Invalid file type"
  ELSE IF f.sizeMB > MaxSizeMB THEN "File size exceeds limit"
  ELSE NoError

\* generateThumbnail: seekTime = Math.min(1, video.duration * 0.1)
ThumbnailTime(d) == Frac(IF d < 10 THEN d ELSE 10, 10)

\* Mutant: the sampling loop counts from 1.
FrameTimeFromOne(i, d, count) == Frac((i + 1) * d, count)

\* extractFrames: time = i * (video.duration / extractFramesCount)
FrameTime(i, d, count) == Frac(i * d, count)

\* extractFrames: progress = ((i + 1) / extractFramesCount) * 100
Progress(i, count) == Frac((i + 1) * 100, count)

\* The image frame k of a file shows, as the remote service reads it.
FrameImage(f, k) == IF k \in f.unsafe THEN <<"b">> ELSE <<"a">>

\* video.currentTime = time
Seek(time, purpose) == Append(seeks, [time |-> time, purpose |-> purpose, afterRemove |-> removed])

InitVideo ==
  /\ program = "video"
  /\ SetupIdle /\ SweepIdle
  /\ OthersConstructed
  /\ EngineIdle
  /\ VideoMounted
  /\ extractFramesCount \in FrameCounts

\* handleFileSelect / handleDrop: processFile up to the creation of the <video>.
ProcessFile(f) ==
  /\ program = "video"
  /\ selected = NoFile
  /\ ~ui.file
  /\ selected' = f
  /\ IF ValidateFile(f) # NoError
     THEN /\ ui' = [ui EXCEPT !.uploadError = ValidateFile(f),
                              !.frameExtractionProgress = Frac(0, 1),
                              !.processingStage = ""]
          /\ rejects' = Append(rejects, ValidateFile(f))
          /\ UNCHANGED video
     ELSE /\ ui' = [ui EXCEPT !.uploadError = NoError,
                              !.frameExtractionProgress = Frac(0, 1),
                              !.processingStage = "",
                              !.preview = TRUE, !.file = TRUE]
          /\ video' = [NoVideo EXCEPT !.pc = "loading"]
          /\ UNCHANGED rejects
  /\ UNCHANGED <<program, now, hookVars, botVars, engineVars, setupVars, sweepVars, widgetVars, extractFramesCount,
                 seeks, submitted, vresult, removed>>

\* Mutant: generateThumbnail is not awaited, so extractFrames issues its first
\* seek while the thumbnail seek is pending.
LoadedMetadataUnawaited ==
  /\ program = "video"
  /\ video.pc = "loading"
  /\ ui' = [ui EXCEPT !.duration = selected.duration,
                      !.processingStage = "Extracting frames for analysis..."]
  /\ seeks' = Append(Seek(ThumbnailTime(selected.duration), "thumbnail"),
                     [time |-> FrameTime(0, selected.duration, extractFramesCount),
                      purpose |-> "frame", afterRemove |-> removed])
  /\ video' = [video EXCEPT !.pc = "thumbnail"]
  /\ UNCHANGED <<program, now, hookVars, botVars, engineVars, setupVars, sweepVars, widgetVars, extractFramesCount,
                 selected, rejects, submitted, vresult, removed>>

\* video.onloadedmetadata: the duration test, then generateThumbnail seeks.
LoadedMetadata ==
  /\ program = "video"
  /\ video.pc = "loading"
  /\ IF selected.duration > MaxDurationSeconds
     THEN /\ ui' = [ui EXCEPT !.duration = selected.duration,
                              !.uploadError = "Video duration exceeds limit"]
          /\ rejects' = Append(rejects, "Video duration exceeds limit")
          /\ video' = [video EXCEPT !.pc = "rejected"]
          /\ UNCHANGED seeks
     ELSE /\ ui' = [ui EXCEPT !.duration = selected.duration,
                              !.processingStage = "Generating thumbnail..."]
          /\ seeks' = Seek(ThumbnailTime(selected.duration), "thumbnail")
          /\ video' = [video EXCEPT !.pc = "thumbnail"]
          /\ UNCHANGED rejects
  /\ UNCHANGED <<program, now, hookVars, botVars, engineVars, setupVars, sweepVars, widgetVars, extractFramesCount,
                 selected, submitted, vresult, removed>>

\* video.onerror before the metadata is there.
MetadataError ==
  /\ program = "video"
  /\ video.pc = "loading"
  /\ ui' = [ui EXCEPT !.uploadError = "Failed to load video metadata", !.processingStage = ""]
  /\ rejects' = Append(rejects, "Failed to load video metadata")
  /\ video' = [video EXCEPT !.pc = "failed"]
  /\ UNCHANGED <<program, now, hookVars, botVars, engineVars, setupVars, sweepVars, widgetVars, extractFramesCount,
                 selected, seeks, submitted, vresult, removed>>

\* The thumbnail seek completes: the thumbnail is set and extractFrames issues
\* its first seek.
ThumbnailSeeked ==
  /\ program = "video"
  /\ video.pc = "thumbnail"
  /\ ui' = [ui EXCEPT !.thumbnail = TRUE,
                      !.processingStage = "Extracting frames for analysis..."]
  /\ seeks' = Seek(FrameTime(0, selected.duration, extractFramesCount), "frame")
  /\ video' = [video EXCEPT !.pc = "frame", !.i = 0]
  /\ UNCHANGED <<program, now, hookVars, botVars, engineVars, setupVars, sweepVars, widgetVars, extractFramesCount,
                 selected, rejects, submitted, vresult, removed>>

\* generateThumbnail rejects (drawImage throws, or video.onerror): the catch of
\* processFile reports it.
ThumbnailFails ==
  /\ program = "video"
  /\ video.pc = "thumbnail"
  /\ ui' = [ui EXCEPT !.uploadError = "Failed to generate thumbnail", !.processingStage = ""]
  /\ rejects' = Append(rejects, "Failed to generate thumbnail")
  /\ video' = [video EXCEPT !.pc = "failed"]
  /\ UNCHANGED <<program, now, hookVars, botVars, engineVars, setupVars, sweepVars, widgetVars, extractFramesCount,
                 selected, seeks, submitted, vresult, removed>>

\* A frame seek completes: the frame is captured and progress reported; the loop
\* seeks again, or extractFrames returns and processFile checks frames[0].
FrameSeeked ==
  /\ program = "video"
  /\ video.pc = "frame"
  /\ ~video.error
  /\ LET captured == Append(video.frames,
                            [time |-> seeks[Len(seeks)].time,
                             progress |-> Progress(video.i, extractFramesCount)])
     IN  IF video.i + 1 < extractFramesCount
         THEN /\ video' = [video EXCEPT !.frames = captured, !.i = video.i + 1]
              /\ ui' = [ui EXCEPT !.frameExtractionProgress = Progress(video.i, extractFramesCount),
                                  !.processingStage = "Extracting frames..."]
              /\ seeks' = Seek(FrameTime(video.i + 1, selected.duration, extractFramesCount),
                               "frame")
              /\ UNCHANGED <<submitted, vresult>>
         ELSE /\ video' = [video EXCEPT !.frames = captured, !.i = video.i + 1, !.pc = "done"]
              /\ ui' = [ui EXCEPT !.frameExtractionProgress = Progress(video.i, extractFramesCount),
                                  !.processingStage = "Moderation complete"]
              /\ submitted' = Append(submitted, 1)
              /\ vresult' = [vresult EXCEPT !.isChecking = TRUE, !.error = NoError]
              /\ UNCHANGED seeks
  /\ UNCHANGED <<program, now, hookVars, botVars, engineVars, setupVars, sweepVars, widgetVars, extractFramesCount,
                 selected, rejects, removed>>

\* The <video> raises an error while extractFrames waits for a seek: the
\* element's onerror is the one generateThumbnail installed, which rejects the
\* thumbnail promise that has resolved already; the promise extractFrames
\* awaits has no reject path, so nothing resumes processFile.
FrameError ==
  /\ program = "video"
  /\ video.pc = "frame"
  /\ ~video.error
  /\ video' = [video EXCEPT !.error = TRUE]
  /\ UNCHANGED <<program, now, hookVars, botVars, engineVars, setupVars, sweepVars, widgetVars, extractFramesCount,
                 selected, ui, seeks, rejects, submitted, vresult, removed>>

\* The check of the submitted frame comes back (useModeration, debounceMs 0).
VideoCheckResolves ==
  /\ program = "video"
  /\ vresult.isChecking
  /\ LET response == Backend(FrameImage(selected, submitted[Len(submitted)]))
     IN  vresult' = [safe |-> response.safe, flagged |-> response.flagged,
                     action |-> response.action, categories |-> response.categories,
                     isChecking |-> FALSE, error |-> NoError]
  /\ UNCHANGED <<program, now, hookVars, botVars, engineVars, setupVars, sweepVars, widgetVars, extractFramesCount,
                 selected, ui, video, seeks, rejects, submitted, removed>>

\* The check of the submitted frame fails.
VideoCheckRejects ==
  /\ program = "video"
  /\ vresult.isChecking
  /\ vresult' = [vresult EXCEPT !.isChecking = FALSE, !.error = "Failed to check content"]
  /\ UNCHANGED <<program, now, hookVars, botVars, engineVars, setupVars, sweepVars, widgetVars, extractFramesCount,
                 selected, ui, video, seeks, rejects, submitted, removed>>

\* handleRemove: revoke the object URL, reset the component's state.
HandleRemove ==
  /\ program = "video"
  /\ ui.file
  /\ video' = [video EXCEPT !.urlRevoked = ui.preview]
  /\ ui' = UiCleared
  /\ removed' = TRUE
  /\ UNCHANGED <<program, now, hookVars, botVars, engineVars, setupVars, sweepVars, widgetVars, extractFramesCount,
                 selected, seeks, rejects, submitted, vresult>>

\* The blockUnsafe prop (its default).
BlockUnsafe == TRUE

\* DefaultPreview: isProcessing = result.isChecking ||
\* frameExtractionProgress < 100 || processingStage (a non-empty string is truthy)
IsProcessing ==
  \/ vresult.isChecking
  \/ ui.frameExtractionProgress.num < 100 * ui.frameExtractionProgress.den
  \/ ui.processingStage # ""

\* DefaultPreview: canConfirm = !isProcessing && (result.safe || !blockUnsafe);
\* the confirm button is disabled={!canConfirm}
CanConfirm == ~IsProcessing /\ (vresult.safe \/ ~BlockUnsafe)

NextVideo ==
  \/ \E f \in Files : ProcessFile(f)
  \/ LoadedMetadata
  \/ MetadataError
  \/ ThumbnailSeeked
  \/ ThumbnailFails
  \/ FrameSeeked
  \/ FrameError
  \/ VideoCheckResolves
  \/ VideoCheckRejects
  \/ HandleRemove

SpecVideo == InitVideo /\ [][NextVideo]_vars

\* ------------------------------------------------------ ModeratedImageUpload
MaxImageSizeMB == 10
ImageFormats == {"image/jpeg", "image/png", "image/gif", "image/webp"}

\* The files a user picks: the content is what the remote service sees in the
\* image's data URL.
ImageFiles ==
  { [type |-> ty, sizeMB |-> sz, content |-> c] :
      ty \in {"image/png", "video/mp4"}, sz \in {10, 11}, c \in {<<"a">>, <<"b">>} }

\* validateFile of ModeratedImageUpload: the error message, or null
ValidateImage(f) ==
  IF f.type \notin ImageFormats THEN "Invalid file type"
  ELSE IF f.sizeMB > MaxImageSizeMB THEN "File size exceeds limit"
  ELSE NoError

\* DefaultPreview of ModeratedImageUpload:
\* canConfirm = !result.isChecking && (result.safe || !blockUnsafe)
ImageCanConfirm == ~result.isChecking /\ (result.safe \/ ~blockUnsafe)

\* The upload component with blockUnsafe (its default), its hook without
\* debounce, with or without an API key.
InitImage ==
  /\ program = "image"
  /\ SetupIdle /\ SweepIdle
  /\ now = 0
  /\ enabled = TRUE /\ hasClient \in BOOLEAN /\ debounceMs = 0
  /\ HookConstructed
  /\ WidgetsIdle
  /\ BotConstructed
  /\ db = [g \in Guilds |-> NoConfig]
  /\ joined = {} /\ concurrency = 0 /\ msgsLeft = 0 /\ writesLeft = 0
  /\ EngineIdle
  /\ VideoUnused

\* handleFileSelect: a file that fails validation is rejected, any other is
\* handed to a FileReader. (The input is there while no file is shown; one
\* reader at a time.)
ImageSelect(f) ==
  /\ program = "image"
  /\ image.file = 0 /\ image.reading = 0
  /\ Len(picked) < MaxChecks
  /\ picked' = Append(picked, f.content)
  /\ checkOf' = Append(checkOf, 0)
  /\ image' = IF ValidateImage(f) # NoError THEN image
              ELSE [image EXCEPT !.reading = Len(picked) + 1]
  /\ UNCHANGED <<program, now, hookVars, botVars, engineVars, setupVars, sweepVars, videoVars, uploads,
                 blockUnsafe, internalValue, changes, failOpen, moderated>>

\* reader.onloadend: the preview and the file are set and the data URL is
\* handed to check().
ImageLoaded ==
  /\ program = "image"
  /\ image.reading # 0
  /\ image' = [file |-> image.reading, reading |-> 0]
  /\ Check(picked[image.reading])
  /\ checkOf' = [checkOf EXCEPT ![image.reading] =
                   IF enabled /\ hasClient THEN Len(checks) + 1 ELSE 0]
  /\ UNCHANGED <<program, now, enabled, hasClient, mounted, debounceMs,
                 abortControllerRef, inflight, issued, notified>>
  /\ UNCHANGED <<botVars, engineVars, setupVars, sweepVars, videoVars, picked, uploads,
                 blockUnsafe, internalValue, changes, failOpen, moderated>>

\* handleRemove of ModeratedImageUpload: the file and the preview are cleared
\* (the hook's result is not touched).
ImageRemove ==
  /\ program = "image"
  /\ image.file # 0
  /\ image' = [image EXCEPT !.file = 0]
  /\ UNCHANGED <<program, now, hookVars, botVars, engineVars, setupVars, sweepVars, videoVars, picked, checkOf,
                 uploads, blockUnsafe, internalValue, changes, failOpen, moderated>>

\* The confirm button (enabled while canConfirm) is clicked: handleConfirm.
ImageConfirm ==
  /\ program = "image"
  /\ image.file # 0
  /\ ImageCanConfirm
  /\ IF blockUnsafe /\ ~result.safe
     THEN UNCHANGED <<image, uploads>>
     ELSE /\ uploads' = Append(uploads, [file |-> image.file, safe |-> result.safe])
          /\ image' = [image EXCEPT !.file = 0]
  /\ UNCHANGED <<program, now, hookVars, botVars, engineVars, setupVars, sweepVars, videoVars, picked, checkOf,
                 blockUnsafe, internalValue, changes, failOpen, moderated>>

NextImage ==
  \/ \E f \in ImageFiles : ImageSelect(f)
  \/ ImageLoaded
  \/ ImageRemove
  \/ ImageConfirm
  \/ \E id \in 1..MaxChecks : TimerFire(id)
  \/ \E id \in 1..MaxChecks : RequestResolves(id)
  \/ \E id \in 1..MaxChecks, name \in {"Error", "TimeoutError", "AbortError"},
        msg \in FailureMessages : RequestRejects(id, name, msg)

SpecImage == InitImage /\ [][NextImage]_vars

\* --------------------------------------------------------- ModeratedTextarea
\* What a user edit can leave in the textarea (e.target.value).
TextValues == { <<>>, <<"a">>, <<"b">>, <<"b", "a">> }

\* The textarea, empty, with or without blockUnsafe, its hook with an API key.
InitTextarea ==
  /\ program = "textarea"
  /\ SetupIdle /\ SweepIdle
  /\ now = 0
  /\ enabled = TRUE /\ hasClient = TRUE /\ debounceMs \in DebounceChoices
  /\ HookConstructed
  /\ image = [file |-> 0, reading |-> 0] /\ picked = <<>> /\ checkOf = <<>> /\ uploads = <<>>
  /\ blockUnsafe \in BOOLEAN
  /\ internalValue = <<>>
  /\ changes = <<>>
  /\ failOpen = TRUE /\ moderated = <<>>
  /\ BotConstructed
  /\ db = [g \in Guilds |-> NoConfig]
  /\ joined = {} /\ concurrency = 0 /\ msgsLeft = 0 /\ writesLeft = 0
  /\ EngineIdle
  /\ VideoUnused

\* handleChange refuses the edit: blockUnsafe, the result is unsafe, and the
\* new value is longer than the current one.
TextareaRefused(newValue) ==
  /\ program = "textarea"
  /\ newValue # internalValue
  /\ blockUnsafe /\ ~result.safe /\ Len(newValue) > Len(internalValue)
  /\ UNCHANGED vars

\* handleChange takes the edit: setInternalValue, onChange, and the effect on
\* internalValue calls check() when the new value is not empty.
TextareaChange(newValue) ==
  /\ program = "textarea"
  /\ newValue # internalValue
  /\ Len(changes) < MaxChecks /\ Len(checks) < MaxChecks
  /\ ~(blockUnsafe /\ ~result.safe /\ Len(newValue) > Len(internalValue))
  /\ internalValue' = newValue
  /\ changes' = Append(changes, [value |-> newValue, unsafe |-> ~result.safe])
  /\ IF newValue # <<>>
     THEN Check(newValue)
     ELSE UNCHANGED <<result, timeoutRef, timers, aborted, checks>>
  /\ UNCHANGED <<program, now, enabled, hasClient, mounted, debounceMs,
                 abortControllerRef, inflight, issued, notified>>
  /\ UNCHANGED <<botVars, engineVars, setupVars, sweepVars, videoVars, image, picked, checkOf, uploads,
                 blockUnsafe, failOpen, moderated>>

NextTextarea ==
  \/ \E v \in TextValues : TextareaRefused(v)
  \/ \E v \in TextValues : TextareaChange(v)
  \/ \E id \in 1..MaxChecks : TimerFire(id)
  \/ \E id \in 1..MaxChecks : RequestResolves(id)
  \/ \E id \in 1..MaxChecks, name \in {"Error", "TimeoutError", "AbortError"},
        msg \in FailureMessages : RequestRejects(id, name, msg)
  \/ Tick

SpecTextarea == InitTextarea /\ [][NextTextarea]_vars

\* ----------------------------------------------------------------- Unity SDK
\* What a response body can be: empty, not JSON, or a JSON object whose
\* decision field is a string or missing.
DecisionStrings == {"allow", "Allow", "block", "review", "maybe", "<null>"}

EmptyBody == [kind |-> "empty", decision |-> "<null>"]

Bodies ==
  {EmptyBody, [kind |-> "malformed", decision |-> "<null>"]} \cup
  { [kind |-> "json", decision |-> d] : d \in DecisionStrings }

\* How a UnityWebRequest can end: request.result, request.responseCode and
\* the downloaded text (a timeout ends as a ConnectionError, a status of 400
\* or more as a ProtocolError).
Exchanges ==
  { [result |-> "ConnectionError", responseCode |-> 0, body |-> EmptyBody],
    [result |-> "ProtocolError", responseCode |-> 500, body |-> EmptyBody],
    [result |-> "DataProcessingError", responseCode |-> 200, body |-> EmptyBody],
    [result |-> "Success", responseCode |-> 304, body |-> EmptyBody] } \cup
  { [result |-> "Success", responseCode |-> 200, body |-> b] : b \in Bodies }

\* No request was sent.
NoExchange == [result |-> "none", responseCode |-> 0, body |-> EmptyBody]

\* VettlyResult.CreateFallback
CreateFallback(open) ==
  [decision |-> IF open THEN "Allow" ELSE "Block", fromFallback |-> TRUE]

\* Enum.TryParse<Decision>(s, ignoreCase: true): the member, or "none"
TryParseDecision(s) ==
  IF s \in {"allow", "Allow"} THEN "Allow"
  ELSE IF s = "block" THEN "Block"
  ELSE IF s = "review" THEN "Review"
  ELSE "none"

\* JsonUtility.FromJson<TextModerationResponse> of a body that is not
\* malformed: null for an empty text
FromJson(body) ==
  IF body.kind = "empty" THEN [isNull |-> TRUE, decision |-> "<null>"]
  ELSE [isNull |-> FALSE, decision |-> body.decision]

\* VettlyResult.FromResponse
FromResponse(response) ==
  IF response.isNull THEN CreateFallback(TRUE)
  ELSE [decision |-> IF TryParseDecision(response.decision) = "none" THEN "Block"
                     ELSE TryParseDecision(response.decision),
        fromFallback |-> FALSE]

\* UnityWebRequestExtensions.IsSuccess
IsSuccess(ex) ==
  ex.result = "Success" /\ ex.responseCode >= 200 /\ ex.responseCode < 300

\* VettlyClient.ModerateTextAsync: every exception (the argument checks,
\* SendWebRequestAsync on a connection or protocol error, FromJson on
\* malformed text) ends in the catch.
ClientModerateTextAsync(userId, content, ex) ==
  IF userId = "" \/ content = "" THEN CreateFallback(failOpen)
  ELSE IF ex.result \in {"ConnectionError", "ProtocolError"} THEN CreateFallback(failOpen)
  ELSE IF ~IsSuccess(ex) THEN CreateFallback(failOpen)
  ELSE IF ex.body.kind = "malformed" THEN CreateFallback(failOpen)
  ELSE FromResponse(FromJson(ex.body))

\* VettlyTextModeration.ModerateTextAsync: the client is never null and never
\* throws, so this is the client's result.
TextModerationModerateTextAsync(userId, content, ex) ==
  ClientModerateTextAsync(userId, content, ex)

\* The SDK initialized, with FailOpen set or not.
InitUnity ==
  /\ program = "unity"
  /\ SetupIdle /\ SweepIdle
  /\ now = 0
  /\ enabled = TRUE /\ hasClient = TRUE /\ debounceMs = 0
  /\ HookConstructed
  /\ image = [file |-> 0, reading |-> 0] /\ picked = <<>> /\ checkOf = <<>> /\ uploads = <<>>
  /\ blockUnsafe = TRUE /\ internalValue = <<>> /\ changes = <<>>
  /\ failOpen \in BOOLEAN
  /\ moderated = <<>>
  /\ BotConstructed
  /\ db = [g \in Guilds |-> NoConfig]
  /\ joined = {} /\ concurrency = 0 /\ msgsLeft = 0 /\ writesLeft = 0
  /\ EngineIdle
  /\ VideoUnused

\* Vettly.ModerateTextAsync (initialized) runs to its result.
ModerateTextAsync(userId, content, ex) ==
  /\ program = "unity"
  /\ Len(moderated) < MaxCalls
  /\ moderated' = Append(moderated,
                         [userId |-> userId, content |-> content,
                          exchange |-> IF userId = "" \/ content = "" THEN NoExchange ELSE ex,
                          result |-> TextModerationModerateTextAsync(userId, content, ex)])
  /\ UNCHANGED <<program, now, hookVars, botVars, engineVars, setupVars, sweepVars, videoVars, image, picked,
                 checkOf, uploads, blockUnsafe, internalValue, changes, failOpen>>

NextUnity ==
  \E userId \in {"", "player1"}, content \in {"", "hello"}, ex \in Exchanges :
     ModerateTextAsync(userId, content, ex)

SpecUnity == InitUnity /\ [][NextUnity]_vars

\* ------------------------------------------------------ Discord bot: /setup
MaxInteractions == 3

\* A guild that was set up earlier and has moderation switched off.
ExistingServer ==
  [present |-> TRUE, enabled |-> FALSE, policyPreset |-> "balanced", logChannelId |-> "c0"]

\* The bot in two guilds, the first set up before or not, the second new; two
\* admins at their menus.
InitSetup ==
  /\ program = "setup"
  /\ now = 0
  /\ enabled = TRUE /\ hasClient = TRUE /\ debounceMs = 0
  /\ HookConstructed
  /\ WidgetsIdle
  /\ BotConstructed
  /\ db \in [Guilds -> {NoServer, ExistingServer}]
  /\ db["g2"] = NoServer
  /\ joined = Guilds /\ concurrency = 0 /\ msgsLeft = 0 /\ writesLeft = 0
  /\ EngineIdle
  /\ VideoUnused
  /\ SweepIdle
  /\ setupState = [g \in {} |-> NoSelection]
  /\ sessions = [u \in Users |-> IdleSession]
  /\ interactionsLeft = MaxInteractions

\* What a /setup step leaves alone.
SetupFrame ==
  UNCHANGED <<program, now, hookVars, engineVars, videoVars, widgetVars, sweepVars,
              requests, nextCleanup, hs, ws, last, joined, concurrency, msgsLeft,
              writesLeft, admits>>

\* interaction.id of the interaction that arrives next
NextInteractionId == MaxInteractions - interactionsLeft + 1

\* A new interaction of user u arrives in guild g.
Arrives(u, g) ==
  /\ program = "setup"
  /\ sessions[u].pc = "idle"
  /\ g \in joined
  /\ interactionsLeft > 0
  /\ interactionsLeft' = interactionsLeft - 1

\* handleSetupCommand up to `await getServerConfig(guildId)`: a fresh cache entry
\* answers at once and the menu is shown; otherwise the SELECT is sent.
SetupCommand(u, g) ==
  /\ Arrives(u, g)
  /\ sessions' = [sessions EXCEPT ![u] =
       IF CacheHit(g, now)
       THEN [@ EXCEPT !.id = NextInteractionId, !.guild = g, !.reply = "policy menu"]
       ELSE [@ EXCEPT !.id = NextInteractionId, !.guild = g, !.pc = "cmdQuery",
                      !.reply = "none"]]
  /\ UNCHANGED <<setupState, configCache, db>>
  /\ SetupFrame

\* The database runs the SELECT of a getServerConfig called by a /setup handler.
SetupDbSelect(u) ==
  /\ program = "setup"
  /\ sessions[u].pc \in {"cmdQuery", "dbQuery"}
  /\ sessions' = [sessions EXCEPT
       ![u].pc = IF sessions[u].pc = "cmdQuery" THEN "cmdResult" ELSE "dbResult",
       ![u].existing = db[sessions[u].guild]]
  /\ UNCHANGED <<setupState, interactionsLeft, configCache, db>>
  /\ SetupFrame

\* handleSetupCommand resumes with the row: getServerConfig caches it, and the
\* policy menu is shown.
SetupCommandReplies(u) ==
  /\ program = "setup"
  /\ sessions[u].pc = "cmdResult"
  /\ configCache' = MapSet(configCache, sessions[u].guild,
                           [config |-> sessions[u].existing, timestamp |-> now])
  /\ sessions' = [sessions EXCEPT ![u].pc = "idle", ![u].reply = "policy menu"]
  /\ UNCHANGED <<setupState, interactionsLeft, db>>
  /\ SetupFrame

\* handlePolicySelect: setupState.set(guildId, {policyPreset, userId}), then the
\* channel menu is shown.
PolicySelect(u, g, preset) ==
  /\ Arrives(u, g)
  /\ setupState' = MapSet(setupState, g, [policyPreset |-> preset, userId |-> u])
  /\ sessions' = [sessions EXCEPT ![u] =
       [@ EXCEPT !.id = NextInteractionId, !.guild = g, !.reply = "channel menu"]]
  /\ UNCHANGED <<configCache, db>>
  /\ SetupFrame

\* handleChannelSelect up to `await interaction.deferUpdate()`: without a stored
\* selection it answers 'Setup session expired' and returns.
ChannelSelect(u, g, channel) ==
  /\ Arrives(u, g)
  /\ sessions' = [sessions EXCEPT ![u] =
       IF g \notin DOMAIN setupState
       THEN [@ EXCEPT !.id = NextInteractionId, !.guild = g, !.reply = "expired"]
       ELSE [@ EXCEPT !.id = NextInteractionId, !.guild = g, !.pc = "deferring",
                      !.state = setupState[g], !.logChannelId = channel,
                      !.reply = "none"]]
  /\ UNCHANGED <<setupState, configCache, db>>
  /\ SetupFrame

\* Mutant: handleChannelSelect does not delete the stored selection.
DeferredKeepsSelection(u) ==
  /\ program = "setup"
  /\ sessions[u].pc = "deferring"
  /\ sessions' = [sessions EXCEPT ![u] =
       IF CacheHit(sessions[u].guild, now)
       THEN [@ EXCEPT !.pc = "writing", !.existing = configCache[sessions[u].guild].config]
       ELSE [@ EXCEPT !.pc = "dbQuery"]]
  /\ UNCHANGED <<setupState, interactionsLeft, configCache, db>>
  /\ SetupFrame

\* handleChannelSelect resumes after deferUpdate: setupState.delete(guildId),
\* then getServerConfig answers from the cache or sends the SELECT.
Deferred(u) ==
  /\ program = "setup"
  /\ sessions[u].pc = "deferring"
  /\ setupState' = MapDelete(setupState, sessions[u].guild)
  /\ sessions' = [sessions EXCEPT ![u] =
       IF CacheHit(sessions[u].guild, now)
       THEN [@ EXCEPT !.pc = "writing", !.existing = configCache[sessions[u].guild].config]
       ELSE [@ EXCEPT !.pc = "dbQuery"]]
  /\ UNCHANGED <<interactionsLeft, configCache, db>>
  /\ SetupFrame

\* getServerConfig resumes with the row and caches it; handleChannelSelect sends
\* the UPDATE when it got a config, the INSERT otherwise.
SetupConfigFetched(u) ==
  /\ program = "setup"
  /\ sessions[u].pc = "dbResult"
  /\ configCache' = MapSet(configCache, sessions[u].guild,
                           [config |-> sessions[u].existing, timestamp |-> now])
  /\ sessions' = [sessions EXCEPT ![u].pc = "writing"]
  /\ UNCHANGED <<setupState, interactionsLeft, db>>
  /\ SetupFrame

\* The row handleChannelSelect asks the database to store.
RowToSave(session) ==
  [present |-> TRUE, enabled |-> TRUE, policyPreset |-> session.state.policyPreset,
   logChannelId |-> session.logChannelId]

\* The database runs the statement of updateServerConfig / createServerConfig:
\* an UPDATE that matches no row changes nothing; an INSERT for a guild that has
\* a row violates the unique guild_id, the handler throws and handleInteraction
\* answers with the error message.
SetupWrite(u) ==
  /\ program = "setup"
  /\ sessions[u].pc = "writing"
  /\ LET g == sessions[u].guild
     IN  IF sessions[u].existing.present
         THEN /\ db' = IF db[g].present
                       THEN [db EXCEPT ![g] = RowToSave(sessions[u])]
                       ELSE db
              /\ sessions' = [sessions EXCEPT ![u].pc = "written"]
         ELSE IF db[g].present
         THEN /\ sessions' = [sessions EXCEPT ![u].pc = "idle", ![u].reply = "error"]
              /\ UNCHANGED db
         ELSE /\ db' = [db EXCEPT ![g] = RowToSave(sessions[u])]
              /\ sessions' = [sessions EXCEPT ![u].pc = "written"]
  /\ UNCHANGED <<setupState, interactionsLeft, configCache>>
  /\ SetupFrame

\* The write resumes: configCache.delete(guildId), then 'Setup Complete!'.
SetupComplete(u) ==
  /\ program = "setup"
  /\ sessions[u].pc = "written"
  /\ configCache' = MapDelete(configCache, sessions[u].guild)
  /\ sessions' = [sessions EXCEPT ![u].pc = "idle", ![u].reply = "complete"]
  /\ UNCHANGED <<setupState, interactionsLeft, db>>
  /\ SetupFrame

NextSetup ==
  \/ \E u \in Users, g \in Guilds : SetupCommand(u, g)
  \/ \E u \in Users : SetupDbSelect(u)
  \/ \E u \in Users : SetupCommandReplies(u)
  \/ \E u \in Users, g \in Guilds, preset \in PolicyPresets : PolicySelect(u, g, preset)
  \/ \E u \in Users, g \in Guilds, channel \in Channels : ChannelSelect(u, g, channel)
  \/ \E u \in Users : Deferred(u)
  \/ \E u \in Users : SetupConfigFetched(u)
  \/ \E u \in Users : SetupWrite(u)
  \/ \E u \in Users : SetupComplete(u)
  \/ Tick

SpecSetup == InitSetup /\ [][NextSetup]_vars

\* ---------------------------------------- RateLimiter with and without sweeps
MaxSweepCalls == 4

\* Two limiters, both new: `requests` belongs to the one that is swept, `unswept`
\* to one whose cleanup() never runs.
InitSweep ==
  /\ program = "sweep"
  /\ now = 0
  /\ enabled = TRUE /\ hasClient = TRUE /\ debounceMs = 0
  /\ HookConstructed
  /\ WidgetsIdle
  /\ BotConstructed
  /\ db = [g \in Guilds |-> NoConfig]
  /\ joined = {} /\ concurrency = 0 /\ msgsLeft = 0 /\ writesLeft = 0
  /\ EngineIdle
  /\ VideoUnused
  /\ SetupIdle
  /\ unswept = [g \in {} |-> <<>>]
  /\ answers = <<>>

\* isLimited(g) is called on both limiters at the same time.
SweepIsLimited(g) ==
  /\ program = "sweep"
  /\ Len(answers) < MaxSweepCalls
  /\ LET stored == IF g \in DOMAIN unswept THEN unswept[g] ELSE <<>>
         recent == RecentRequests(stored, now)
         limited == Len(recent) >= MaxRequests
     IN  /\ unswept' = IF limited THEN unswept ELSE MapSet(unswept, g, Append(recent, now))
         /\ answers' = Append(answers, [guild |-> g, at |-> now,
                                        swept |-> IsLimited(g, now), unswept |-> limited])
  /\ requests' = RequestsAfterIsLimited(g, now)
  /\ UNCHANGED <<program, now, hookVars, engineVars, videoVars, widgetVars, setupVars,
                 nextCleanup, configCache, db, hs, ws, last, joined, concurrency,
                 msgsLeft, writesLeft, admits>>

\* cleanup() runs on the swept limiter, at any point.
SweepCleanup ==
  /\ program = "sweep"
  /\ requests' = RequestsAfterCleanup(now)
  /\ UNCHANGED <<program, now, hookVars, engineVars, videoVars, widgetVars, setupVars,
                 sweepVars, nextCleanup, configCache, db, hs, ws, last, joined,
                 concurrency, msgsLeft, writesLeft, admits>>

NextSweep ==
  \/ \E g \in Guilds : SweepIsLimited(g)
  \/ SweepCleanup
  \/ Tick

SpecSweep == InitSweep /\ [][NextSweep]_vars

\* ------------------------------------------------------------ the repository
Init ==
  \/ InitHook \/ InitLimiter \/ InitConfig \/ InitPolicy \/ InitAggregate \/ InitVideo
  \/ InitImage \/ InitTextarea \/ InitUnity \/ InitSetup \/ InitSweep

Next ==
  \/ NextUnmount \/ NextBot \/ NextPolicy \/ NextAggregate \/ NextVideo
  \/ NextImage \/ NextTextarea \/ NextUnity \/ NextSetup \/ NextSweep

Spec == Init /\ [][Next]_vars

\* The two programs that take content in: the hook, and the bot in guilds that
\* are set up.
InitContent == InitHook \/ InitLimiter

NextContent == NextHook \/ NextLimiter

SpecContent == InitContent /\ [][NextContent]_vars

\* ------------------------------------------------- useModeration: properties
Latest == Len(checks)
Fired(id) == RequestsOf(id) > 0
Quiescent == timers = {} /\ inflight = {}
Decision(r) == [safe |-> r.safe, flagged |-> r.flagged, action |-> r.action,
                categories |-> r.categories]
\* The request of check `id` settles in this step.
Settles(id) == id \in inflight /\ id \notin inflight'

\* C1: the outcome of a check that was superseded while its request was in flight
\* is discarded: the step in which its request settles changes neither `result`
\* nor the onCheck/onError history.
C1_SupersededOutcomeDiscarded ==
  [][\A id \in 1..MaxChecks :
       (Settles(id) /\ id < Latest) => (result' = result /\ notified' = notified)]_vars

\* C2: once nothing is pending and the most recent check (non-blank) has been
\* answered, `result` is exactly that check's answer: no older response has
\* overwritten it or been merged into it.
C2_OnlyLatestResultStands ==
  ( /\ Quiescent
    /\ Latest > 0
    /\ ~IsBlank(checks[Latest])
    /\ \E i \in 1..Len(notified) : notified[i] = [id |-> Latest, kind |-> "onCheck"] )
  => result = [safe |-> Backend(checks[Latest]).safe,
               flagged |-> Backend(checks[Latest]).flagged,
               action |-> Backend(checks[Latest]).action,
               categories |-> Backend(checks[Latest]).categories,
               isChecking |-> FALSE, error |-> NoError]

\* C3: a check superseded before its debounce timer fired never issues a request;
\* the timer of a check is due debounceMs after the call and the request starts
\* when it is due; no check issues two requests; once nothing is pending, the
\* last non-blank check has issued exactly one request and delivered exactly one
\* result, which is the answer for its own content.
C3_DebounceSupersede ==
  [][ /\ \A id \in 1..MaxChecks :
           (id < Latest /\ ~Fired(id)) => ~Fired(id)'
      /\ \A t \in timers' \ timers :
           t.id = Latest' /\ t.due = now + debounceMs
      /\ \A t \in timers \ timers' :
           Fired(t.id)' => (now = t.due /\ t.id = Latest)
      /\ \A id \in 1..MaxChecks : RequestsOf(id)' <= 1
      /\ (Quiescent' /\ Latest' > 0 /\ ~IsBlank(checks'[Latest'])) =>
           (CountRequests(issued', Latest') = 1 /\ CountNotifications(notified', Latest') = 1)
      /\ (Settles(Latest) /\ notified' = Append(notified, [id |-> Latest, kind |-> "onCheck"]))
           => Decision(result') = Backend(checks[Latest])
    ]_vars

\* C3 witness: A then B, both non-blank; A never fired, B fired once and delivered.
C3_Witness ==
  /\ Latest = 2 /\ ~IsBlank(checks[1]) /\ ~IsBlank(checks[2]) /\ checks[1] # checks[2]
  /\ issued = <<2>>
  /\ notified = << [id |-> 2, kind |-> "onCheck"] >>
  /\ Decision(result) = Backend(checks[2])
  /\ Quiescent

\* C5: when the request of the latest (non-superseded) check fails, the decision
\* (safe, flagged, action, categories) stays as it was, result.error becomes a
\* non-null message and isChecking becomes false.
C5_FailureKeepsDecision ==
  [][ (Settles(Latest) /\ notified' # Append(notified, [id |-> Latest, kind |-> "onCheck"]))
        => /\ Decision(result') = Decision(result)
           /\ result'.error # NoError
           /\ result'.isChecking = FALSE
           /\ notified' = Append(notified, [id |-> Latest, kind |-> "onError"])
    ]_vars

\* C5 witness: an unsafe decision is in place, a later check has failed, and the
\* unsafe decision still stands beside the error.
C5_Witness ==
  /\ Latest >= 2
  /\ Len(notified) >= 2
  /\ notified[Len(notified)] = [id |-> Latest, kind |-> "onError"]
  /\ result.safe = FALSE /\ result.action = "block"
  /\ result.error # NoError /\ result.isChecking = FALSE

C4_EmptyContentShortCircuit ==
  [][ /\ (Latest' = Latest + 1 /\ Trim(checks'[Latest']) = <<>>) =>
           /\ timers' = {}
           /\ result' = [safe |-> TRUE, flagged |-> FALSE, action |-> "allow",
                         categories |-> <<>>, isChecking |-> FALSE, error |-> NoError]
           /\ issued' = issued /\ inflight' = inflight
      /\ \A id \in 1..Latest' :
           Trim(checks'[id]) = <<>> => CountRequests(issued', id) = 0
      /\ (last'.step # "none" /\ Trim(last'.msg.content) = <<>> /\ last'.msg.images = 0) =>
           /\ last'.step \in {"botOrDm", "dbQuery", "disabled", "empty"}
           /\ requests' = requests /\ admits' = admits
           /\ \A h \in Handlers : hs'[h].pc = "calling" => hs[h].pc = "calling"
      /\ \A h \in Handlers :
           hs'[h].pc = "calling" =>
             (Trim(hs'[h].msg.content) # <<>> \/ hs'[h].msg.images > 0)
    ]_vars

\* C4 witness: a whitespace-only check() has cancelled the pending timer of a
\* non-blank check, which therefore never fired.
C4_Witness ==
  /\ Latest >= 2
  /\ checks[Latest] = <<" ", " ">>
  /\ ~IsBlank(checks[Latest - 1]) /\ ~Fired(Latest - 1)
  /\ timers = {} /\ result = SafeResult /\ issued = <<>>

\* ------------------------------------------------ Discord bot: properties
\* The step just taken called rateLimiter.isLimited.
GateStep == last'.step \in {"limited", "apiCall"}
\* The stored timestamps of a guild, and how many lie inside the window.
StoredFor(g) == IF g \in DOMAIN requests THEN requests[g] ELSE <<>>
InWindow(ts, t) == Cardinality({ i \in 1..Len(ts) : t - ts[i] < WindowMs })

\* C7: isLimited admits iff fewer than maxRequests stored timestamps of the guild
\* satisfy now - ts < windowMs; on admission the guild's list becomes those
\* timestamps followed by now; on rejection, and in every handler step that does
\* not call isLimited, the map is unchanged; other guilds' lists never change.
C7_AdmitIffBelowCap ==
  [][ /\ GateStep =>
           LET g == last'.guild
               ts == StoredFor(g)
           IN  /\ (last'.step = "apiCall") <=> (InWindow(ts, now) < MaxRequests)
               /\ last'.step = "apiCall" =>
                    /\ g \in DOMAIN requests'
                    /\ requests'[g] =
                         Append(SelectSeq(ts, LAMBDA x : now - x < WindowMs), now)
                    /\ admits'[g] = Append(admits[g], now)
               /\ last'.step = "limited" => requests' = requests /\ admits' = admits
               /\ \A k \in Guilds \ {g} :
                    /\ (k \in DOMAIN requests') = (k \in DOMAIN requests)
                    /\ k \in DOMAIN requests => requests'[k] = requests[k]
      /\ (last'.step # "none" /\ ~GateStep) => requests' = requests /\ admits' = admits
    ]_vars

\* C7 witness: a call was rejected while the guild held maxRequests fresh timestamps.
C7_Witness ==
  /\ last.step = "limited"
  /\ InWindow(StoredFor(last.guild), now) = MaxRequests

\* C8: when exactly maxRequests calls of the guild were admitted inside the
\* trailing window, the next call is rejected; when every earlier admission of the
\* guild is at least windowMs old, the call is admitted, cleanup or not.
C8_CapAndRecovery ==
  [][ GateStep =>
        LET g == last'.guild
        IN  /\ InWindow(admits[g], now) = MaxRequests => last'.step = "limited"
            /\ InWindow(admits[g], now) = 0 => last'.step = "apiCall"
    ]_vars

\* C8 witness: the guild reached the cap inside one window, and after the window
\* a further call was admitted.
C8_Witness ==
  \E g \in Guilds :
    /\ Len(admits[g]) = MaxRequests + 1
    /\ admits[g][MaxRequests] - admits[g][1] < WindowMs
    /\ admits[g][MaxRequests + 1] - admits[g][MaxRequests] >= WindowMs
    /\ last.step = "apiCall" /\ last.guild = g

\* C9: a rejected call leaves the stored timestamps as they were, and the handler
\* returns: no Vettly call starts, nothing is deleted, no mod log is sent.
C9_RejectedCallHasNoEffect ==
  [][ last'.step = "limited" =>
        /\ requests' = requests
        /\ admits' = admits
        /\ \A h \in Handlers : hs'[h].pc = "calling" => hs[h].pc = "calling"
        /\ \A h \in Handlers : hs'[h] # hs[h] => hs'[h].pc = "idle"
        /\ ~last'.deleted /\ ~last'.logged
    ]_vars

\* C9 witness: a call of a guild at its cap was rejected, and the stored
\* timestamps of the guild are still exactly its admissions.
C9_Witness ==
  /\ last.step = "limited"
  /\ Len(admits[last.guild]) = MaxRequests
  /\ StoredFor(last.guild) = admits[last.guild]
  /\ \A h \in Handlers : hs[h].pc = "idle"

\* The step just taken called getServerConfig for a guild message.
GetStep == msgsLeft' = msgsLeft - 1 /\ last'.step # "botOrDm"
\* What the cache holds for the guild is fresh.
Fresh(g) == g \in DOMAIN configCache /\ now - configCache[g].timestamp < CACHE_TTL

\* C10: a getServerConfig that finds a fresh cache entry sends no query and
\* returns the cached record (a cached null too) without touching the cache; one
\* that finds no entry or an expired one sends one query; the row the database
\* returns is stored, null or not, with the current time and is what is
\* returned; a completed write leaves no entry for its guild.
C10_CacheReadThrough ==
  [][ /\ (GetStep /\ Fresh(last'.guild)) =>
           /\ last'.step # "dbQuery"
           /\ last'.config = configCache[last'.guild].config
           /\ configCache' = configCache
           /\ \A h \in Handlers : hs'[h].pc \notin {"dbQuery", "dbResult"} \/ hs'[h] = hs[h]
      /\ (GetStep /\ ~Fresh(last'.guild)) =>
           /\ last'.step = "dbQuery"
           /\ Cardinality({ h \in Handlers : hs'[h].pc = "dbQuery" })
                = Cardinality({ h \in Handlers : hs[h].pc = "dbQuery" }) + 1
      /\ \A h \in Handlers :
           (hs[h].pc = "dbQuery" /\ hs'[h].pc = "dbResult") =>
              hs'[h].config = db[hs[h].guild]
      /\ \A h \in Handlers :
           (hs[h].pc = "dbResult" /\ hs'[h].pc # "dbResult") =>
              /\ hs[h].guild \in DOMAIN configCache'
              /\ configCache'[hs[h].guild] = [config |-> hs[h].config, timestamp |-> now]
              /\ last'.config = hs[h].config
      /\ (ws.pc = "written" /\ ws'.pc = "idle") => ws.guild \notin DOMAIN configCache'
    ]_vars

\* C10 witness: a null record was fetched and cached, and a later call inside the
\* TTL was answered from the cache.
C10_Witness ==
  /\ last.step = "disabled"
  /\ last.config = NoConfig
  /\ last.guild \in DOMAIN configCache
  /\ configCache[last.guild].config = NoConfig
  /\ configCache[last.guild].timestamp < now
  /\ \A h \in Handlers : hs[h].pc = "idle"
  /\ msgsLeft = 0

\* C11: a getServerConfig that starts while no config write is between its
\* statement and its cache invalidation, and that is answered from the cache,
\* returns the guild's current database record (the post-write record once a
\* write has completed, null after a delete), never an older one.
C11_WriteInvalidation ==
  [][ (GetStep /\ Fresh(last'.guild) /\ ws.pc = "idle") =>
        last'.config = db[last'.guild]
    ]_vars

\* The getServerConfig calls of a guild whose SELECT is pending or has returned
\* but is not stored yet.
Fetching(g) == { h \in Handlers : hs[h].guild = g /\ hs[h].pc \in {"dbQuery", "dbResult"} }

\* C12: at no time do two getServerConfig calls of one guild each have a
\* database fetch of their own under way.
C12_SingleFetchPerMiss ==
  \A g \in Guilds : Cardinality(Fetching(g)) <= 1

\* ------------------------------------------------ policy engine: properties
\* The rules of the loaded policy that the scores trigger, stated directly.
TriggeredRules ==
  { i \in 1..Len(loaded.rules) :
      ScoreOf(scores, loaded.rules[i].category) >= loaded.rules[i].threshold }

\* C13: in a Decision, a rule has an entry among the triggered categories iff
\* the score of its category (0 without a score) is at least its threshold;
\* the policy {hate_speech, 0.5, block} gives {safe: false, action: block} for
\* score 0.5 and {safe: true, action: allow} for score 0.49.
C13_ThresholdBoundary ==
  decision # NoDecision =>
    /\ \A i \in 1..Len(loaded.rules) :
         LET r == loaded.rules[i]
             sc == IF r.category \in DOMAIN scores THEN scores[r.category] ELSE 0
         IN  (sc >= r.threshold) <=>
               (\E k \in 1..Len(decision.triggeredCategories) :
                  decision.triggeredCategories[k] =
                    [category |-> r.category, score |-> sc, threshold |-> r.threshold])
    /\ Len(decision.triggeredCategories) = Cardinality(TriggeredRules)
    /\ ( /\ Len(loaded.rules) = 1
         /\ loaded.rules[1].category = "hate_speech"
         /\ loaded.rules[1].threshold = 50
         /\ loaded.rules[1].action = "block"
         /\ "hate_speech" \in DOMAIN scores ) =>
           /\ scores["hate_speech"] = 50 => (decision.safe = FALSE /\ decision.action = "block")
           /\ scores["hate_speech"] = 49 => (decision.safe = TRUE /\ decision.action = "allow")

\* C13 witness: the policy {hate_speech, 0.5, block} evaluated at score 0.5.
C13_Witness ==
  /\ Len(loaded.rules) = 1
  /\ loaded.rules[1].category = "hate_speech" /\ loaded.rules[1].threshold = 50
  /\ loaded.rules[1].action = "block"
  /\ "hate_speech" \in DOMAIN scores /\ scores["hate_speech"] = 50
  /\ decision.safe = FALSE /\ decision.action = "block"

C16_MalformedPolicyRejected ==
  loaded.status = "accepted" =>
    /\ \A i \in 1..Len(policy) :
         /\ policy[i].threshold >= 0 /\ policy[i].threshold <= 100
         /\ policy[i].category \in Categories
    /\ \A i, j \in 1..Len(loaded.rules) :
         (i # j /\ loaded.rules[i].category = loaded.rules[j].category) =>
            loaded.rules[i].priority # loaded.rules[j].priority

\* C15: the overall result of a multi-item check lists the per-item results in
\* the order of the items (result i belongs to item i), is safe iff every item
\* is safe, and carries the most severe per-item action (block > flag > warn >
\* allow).
C15_AggregateAllItems ==
  aggregate # NoAggregate =>
    /\ Len(aggregate.results) = Len(items)
    /\ \A i \in 1..Len(items) :
         /\ aggregate.results[i].ordinal = items[i].ordinal
         /\ \E k \in 1..Len(perItem) : perItem[k] = aggregate.results[i]
    /\ aggregate.safe <=> \A k \in 1..Len(perItem) : perItem[k].safe
    /\ \E k \in 1..Len(perItem) : perItem[k].action = aggregate.action
    /\ \A k \in 1..Len(perItem) :
         \/ perItem[k].action = aggregate.action
         \/ aggregate.action = "block"
         \/ aggregate.action = "flag" /\ perItem[k].action \in {"warn", "allow"}
         \/ aggregate.action = "warn" /\ perItem[k].action = "allow"

\* C15 witness: three items whose results came back out of order, one of them
\* unsafe with action flag, another safe with action warn.
C15_Witness ==
  /\ Len(items) = 3 /\ Len(perItem) = 3 /\ aggregate # NoAggregate
  /\ perItem[1].ordinal = 3 /\ perItem[2].ordinal = 1
  /\ perItem[1].safe /\ perItem[1].action = "warn"
  /\ perItem[2].action = "flag" /\ perItem[3].safe
  /\ aggregate.safe = FALSE /\ aggregate.action = "flag"
  /\ aggregate.results[1].action = "flag"

\* -------------------------------------------- ModeratedVideoUpload: properties
\* The picked file is one the component must turn away.
Unacceptable ==
  /\ selected # NoFile
  /\ \/ selected.type \notin {"video/mp4", "video/webm", "video/quicktime"}
     \/ selected.sizeMB > 100
     \/ selected.duration > 300

\* C17: for a picked file of a type that is not accepted, larger than maxSizeMB
\* or longer than maxDurationSeconds, no assignment to video.currentTime is made
\* and no frame is handed to check(); a wrong type or size is reported through
\* onReject at once, a wrong duration as soon as the metadata is read.
C17_VideoFailFast ==
  Unacceptable =>
    /\ seeks = <<>>
    /\ submitted = <<>>
    /\ video.frames = <<>>
    /\ vresult = SafeResult
    /\ (selected.type \notin {"video/mp4", "video/webm", "video/quicktime"}
          \/ selected.sizeMB > 100) =>
         (video.pc = "none" /\ Len(rejects) = 1)
    /\ video.pc \in {"none", "loading", "rejected", "failed"}
    /\ video.pc \in {"rejected", "failed"} => Len(rejects) = 1

\* C17 witness: a video of accepted type and size, longer than
\* maxDurationSeconds, was turned away when its metadata was read.
C17_Witness ==
  /\ selected.type = "video/mp4" /\ selected.sizeMB = 100 /\ selected.duration = 301
  /\ video.pc = "rejected"
  /\ rejects = << "Video duration exceeds limit" >>
  /\ seeks = <<>>

\* C18: when extractFrames has returned, it has captured extractFramesCount
\* frames, frame i (from 0) at i * duration / extractFramesCount seconds, with
\* progress (i+1) / extractFramesCount reported after it: increasing, and 100%
\* after the last; while it runs, the frames captured so far obey the same. A
\* 60-second video with 5 frames is sampled at 0, 12, 24, 36 and 48 seconds.
C18_FrameSampling ==
  /\ video.pc = "done" => Len(video.frames) = extractFramesCount
  /\ \A k \in 1..Len(video.frames) :
       /\ video.frames[k].time.num * extractFramesCount
            = (k - 1) * selected.duration * video.frames[k].time.den
       /\ video.frames[k].progress.num * extractFramesCount
            = k * 100 * video.frames[k].progress.den
       /\ k > 1 => video.frames[k - 1].progress.num * video.frames[k].progress.den
                     < video.frames[k].progress.num * video.frames[k - 1].progress.den
       /\ (selected.duration = 60 /\ extractFramesCount = 5) =>
            video.frames[k].time.num = 12 * (k - 1) * video.frames[k].time.den
  /\ (video.pc = "done" /\ ~removed) =>
       ui.frameExtractionProgress.num = 100 * ui.frameExtractionProgress.den

\* C18 witness: a 60-second video sampled with 5 frames, the last at 48 seconds.
C18_Witness ==
  /\ selected.duration = 60 /\ extractFramesCount = 5
  /\ video.pc = "done"
  /\ Len(video.frames) = 5
  /\ video.frames[5].time.num = 48 * video.frames[5].time.den
  /\ ~removed

\* C19: once the frames are extracted, every one of them has been handed to
\* check(), and once the check has come back without an error the video counts
\* as unsafe if any extracted frame shows a violation.
C19_AllFramesModerated ==
  video.pc = "done" =>
    /\ \A k \in 1..Len(video.frames) : \E j \in 1..Len(submitted) : submitted[j] = k
    /\ (~vresult.isChecking /\ vresult.error = NoError
          /\ \E k \in 1..Len(video.frames) : k \in selected.unsafe)
         => ~vresult.safe

\* C20: when handleRemove has run while a frame seek of extractFrames was
\* pending, the extraction makes no further assignment to video.currentTime.
C20_NoSeekAfterRemove ==
  [][ (removed /\ video.pc = "frame" /\ ~seeks[Len(seeks)].afterRemove)
        => seeks' = seeks ]_vars

C27_CleanupInvariant ==
  [][ nextCleanup' # nextCleanup =>
        \A g \in Guilds :
          LET fresh == SelectSeq(Timestamps(g), LAMBDA ts : now - ts < WindowMs)
          IN  /\ fresh = <<>> => g \notin DOMAIN requests'
              /\ g \in DOMAIN requests' => (requests'[g] = fresh /\ requests'[g] # <<>>)
              /\ fresh # <<>> => g \in DOMAIN requests'
    ]_vars

\* C27 witness: the sweep has run; it removed a guild whose only timestamp had
\* aged out and cut another guild's list down to its one fresh timestamp.
C27_Witness ==
  /\ program = "bot" /\ nextCleanup > CleanupIntervalMs /\ now = CleanupIntervalMs
  /\ last = NoEffects
  /\ \E g, k \in Guilds :
        /\ Len(admits[g]) = 1 /\ g \notin DOMAIN requests
        /\ Len(admits[k]) = 2 /\ k \in DOMAIN requests /\ requests[k] = <<admits[k][2]>>

\* C25: a handling that stops at the bot/DM test or at the enabled test takes no
\* rate-limit slot and starts no moderation call, and only guild messages of
\* users with a present, enabled config get further; once the guild's record
\* is disabled in the database and the write that disabled it has completed
\* (statement and cache invalidation, no further write to come), every
\* onMessageCreate that starts for the guild is skipped.
C25_DisabledGuildsSkipped ==
  [][ /\ last'.step \in {"botOrDm", "disabled"} =>
           /\ requests' = requests /\ admits' = admits
           /\ \A h \in Handlers : hs'[h].pc = "calling" => hs[h].pc = "calling"
      /\ last'.step \in {"empty", "limited", "apiCall"} =>
           /\ last'.config.present /\ last'.config.enabled
           /\ ~last'.msg.bot /\ last'.msg.inGuild
      /\ ( /\ msgsLeft' = msgsLeft - 1
           /\ ws.pc = "idle" /\ writesLeft = 0
           /\ db[last'.guild].present /\ ~db[last'.guild].enabled )
         => last'.step \in {"botOrDm", "disabled", "dbQuery"}
    ]_vars

\* C23: once the component is unmounted no remote request starts (the pending
\* debounce timer never fires), and no request that settles changes `result`
\* or calls onCheck or onError.
C23_UnmountCleanup ==
  [][ ~mounted => (issued' = issued /\ result' = result /\ notified' = notified) ]_vars

\* The seeks of the <video> element whose seeked event has been handled: the
\* thumbnail's once extractFrames runs, and one per captured frame.
CompletedSeeks ==
  Len(video.frames) + (IF video.pc \in {"frame", "done"} THEN 1 ELSE 0)

\* C26: at most one seek of the <video> element is outstanding; the thumbnail
\* seek is the first and has completed before any frame seek is issued; every
\* frame is captured from its own seek before the next seek is issued.
C26_OneSeekAtATime ==
  program = "video" =>
     /\ Len(seeks) - CompletedSeeks \in {0, 1}
     /\ \A i \in 1..Len(seeks) : (seeks[i].purpose = "thumbnail") <=> (i = 1)
     /\ Len(seeks) > 1 => video.pc \in {"frame", "done"}
     /\ \A k \in 1..Len(video.frames) : video.frames[k].time = seeks[k + 1].time

\* C26 witness: three frames were extracted after the thumbnail, four seeks
\* in all, none outstanding.
C26_Witness ==
  /\ program = "video" /\ video.pc = "done" /\ extractFramesCount = 3
  /\ Len(seeks) = 4 /\ Len(video.frames) = 3 /\ CompletedSeeks = 4

\* C28: the thumbnail is taken by a seek of its own, ahead of the sampled
\* frames, at about 10% of the duration (within 1% of the duration; about 6
\* seconds for a 60-second video).
C28_ThumbnailAtTenPercent ==
  program = "video" =>
    \A i \in 1..Len(seeks) :
      seeks[i].purpose = "thumbnail" =>
        LET t == seeks[i].time
            d == selected.duration
            diff == 10 * t.num - d * t.den
        IN  /\ i = 1
            /\ 10 * (IF diff < 0 THEN -diff ELSE diff) <= d * t.den

\* C30: when a valid video is selected, all its frames are extracted and its
\* check has completed with safe = true, the confirm button is enabled.
C30_ConfirmEnabledWhenSafe ==
  ( /\ program = "video" /\ ui.file /\ video.pc = "done"
    /\ Len(video.frames) = extractFramesCount
    /\ submitted # <<>> /\ ~vresult.isChecking
    /\ vresult.error = NoError /\ vresult.safe )
  => CanConfirm

\* C29: with blockUnsafe, onUpload is called for a selected file only if the
\* check made for that selection completed successfully (onCheck was called
\* for it) with safe = true.
C29_UploadOnlyAfterSafeCheck ==
  (program = "image" /\ blockUnsafe) =>
    \A u \in 1..Len(uploads) :
      LET id == checkOf[uploads[u].file]
      IN  /\ id # 0
          /\ \E n \in 1..Len(notified) : notified[n] = [id |-> id, kind |-> "onCheck"]
          /\ Backend(checks[id]).safe

\* C24: with blockUnsafe, while the result is unsafe the textarea is
\* read-only: no edit changes its value and onChange is not called.
C24_ReadOnlyWhileUnsafe ==
  [][ (program = "textarea" /\ blockUnsafe /\ ~result.safe) =>
        (internalValue' = internalValue /\ changes' = changes) ]_vars

\* C22: a ModerateTextAsync call whose request was sent and did not yield a
\* usable response (connection or protocol error, timeout, a status outside
\* 2xx, an empty or unparsable body) returns a fallback result
\* (FromFallback = true) that is Allow when FailOpen is set and Block when it
\* is not.
C22_FailurePolicy ==
  program = "unity" =>
    \A i \in 1..Len(moderated) :
      LET ex == moderated[i].exchange
          failed == \/ ex.result \in {"ConnectionError", "ProtocolError", "DataProcessingError"}
                    \/ ex.responseCode < 200 \/ ex.responseCode >= 300
                    \/ ex.body.kind \in {"empty", "malformed"}
      IN  (ex # NoExchange /\ failed) =>
             /\ moderated[i].result.fromFallback
             /\ moderated[i].result.decision = (IF failOpen THEN "Allow" ELSE "Block")

\* processFile has stopped for good while extracting: the pending seek ended
\* with the video's error event, no rejection was reported, and the stage still
\* says that frames are being extracted.
StuckExtracting ==
  /\ program = "video" /\ video.pc = "frame" /\ video.error
  /\ rejects = <<>>
  /\ ui.processingStage \in {"Extracting frames for analysis...", "Extracting frames..."}

\* C31: video processing terminates: when every seek completes or the video
\* raises an error, processFile is never left in the extracting stage with its
\* seek answered, no rejection reported and nothing to resume it.
C31_ProcessingTerminates == ~StuckExtracting

\* C32: whenever the textarea is empty and no check is pending or in flight,
\* the result is safe/allow; so with blockUnsafe there is no state in which
\* the text is empty and every insertion is refused.
C32_EmptyTextIsSafe ==
  program = "textarea" =>
    /\ (internalValue = <<>> /\ timers = {} /\ inflight = {}) =>
          (result.safe /\ result.action = "allow")
    /\ ~(blockUnsafe /\ internalValue = <<>> /\ ~result.safe)

\* The most recently issued check has content to moderate and is waiting for
\* its debounce delay or for its remote response.
LatestCheckWaiting ==
  /\ checks # <<>>
  /\ ~IsBlank(checks[Len(checks)])
  /\ \/ \E t \in timers : t.id = Len(checks)
     \/ Len(checks) \in inflight

\* C33: result.isChecking is true exactly while the most recently issued
\* non-blank check waits for its debounce delay or its response, and false once
\* that check has completed, failed or been replaced by a blank check.
C33_IsCheckingTracksLatest ==
  program = "react" => (result.isChecking <=> LatestCheckWaiting)

\* The user has stopped editing a non-empty text and the check of that final
\* text has completed with a response.
FinalCheckCompleted ==
  /\ program = "textarea"
  /\ changes # <<>> /\ checks # <<>>
  /\ changes[Len(changes)].value = internalValue
  /\ checks[Len(checks)] = internalValue
  /\ timers = {} /\ inflight = {}
  /\ \E k \in 1..Len(notified) : notified[k] = [id |-> Len(checks), kind |-> "onCheck"]

\* C34: once the user stops editing and the check of the final text completes,
\* the last result the parent received through onChange is the moderation
\* result of the final text.
C34_OnChangeResultOfFinalText ==
  FinalCheckCompleted =>
    (changes[Len(changes)].unsafe <=> ~Backend(internalValue).safe)

\* The moderation calls of a guild started in the trailing window (t - windowMs, t].
StartedInWindow(g, t) ==
  Cardinality({ i \in 1..Len(admits[g]) : admits[g][i] <= t /\ t - admits[g][i] < WindowMs })

\* C35: for every guild and every time t, at most maxRequests moderation calls
\* of the guild were started in the trailing window (t - windowMs, t], whatever
\* the interleaving of handlers and sweeps; the guild's stored timestamp list
\* never holds more than maxRequests entries.
C35_CallsBoundedPerWindow ==
  program = "bot" =>
    \A g \in Guilds :
      /\ \A t \in 0..now : StartedInWindow(g, t) <= MaxRequests
      /\ g \in DOMAIN requests => Len(requests[g]) <= MaxRequests

\* C35 witness: a guild has started more calls than the cap allows in one
\* window, the earliest outside the trailing window, which is full, as is the
\* stored list.
C35_Witness ==
  /\ program = "bot"
  /\ \E g \in Guilds :
       /\ Len(admits[g]) > MaxRequests
       /\ StartedInWindow(g, now) = MaxRequests
       /\ g \in DOMAIN requests /\ Len(requests[g]) = MaxRequests

\* The /setup handlers that hold a selection taken from setupState.
HoldsSelection(u) ==
  sessions[u].pc \in {"deferring", "dbQuery", "dbResult", "writing", "written"}

\* C36: when two users run /setup in one guild with interleaved steps, the
\* selection handleChannelSelect saves is the one the same user stored in
\* handlePolicySelect: no user's pending selection is replaced by another
\* user's, and none is consumed on behalf of another user.
C36_SelectionOfSameUser ==
  [][ program = "setup" =>
        /\ \A u \in Users : HoldsSelection(u)' => sessions'[u].state.userId = u
        /\ \A g \in DOMAIN setupState \cap DOMAIN setupState' :
              setupState'[g].userId = setupState[g].userId
    ]_vars

\* C39: a channel select for a guild without a stored selection answers
\* 'Setup session expired' and writes nothing; one that finds a selection takes
\* it, deletes it from setupState, and its write stores the selected policy, the
\* selected log channel and enabled = true in the guild's row (updated if there
\* is one, created otherwise) and touches no other row; nothing else writes
\* a config. So a channel select after the selection was consumed, with no
\* policy select in between, is answered as expired.
C39_SetupSessionLifecycle ==
  [][ program = "setup" =>
        /\ \A u \in Users :
             LET s == sessions[u]
                 t == sessions'[u]
                 g == sessions'[u].guild
             IN  /\ (t.id # s.id /\ (t.reply = "expired" \/ t.pc = "deferring")) =>
                       /\ (g \notin DOMAIN setupState) <=> (t.reply = "expired")
                       /\ t.reply = "expired" =>
                            (t.pc = "idle" /\ db' = db /\ setupState' = setupState)
                       /\ t.pc = "deferring" =>
                            (t.state = setupState[g] /\ t.logChannelId \in Channels)
                 /\ (s.pc = "deferring" /\ t.pc # "deferring") =>
                       g \notin DOMAIN setupState'
                 /\ (s.pc = "writing" /\ t.pc = "written") =>
                       /\ db'[g] = [present |-> TRUE, enabled |-> TRUE,
                                    policyPreset |-> s.state.policyPreset,
                                    logChannelId |-> s.logChannelId]
                       /\ \A k \in Guilds \ {g} : db'[k] = db[k]
                 /\ (s.pc = "written" /\ t.pc # "written") => t.reply = "complete"
        /\ db' # db => \E u \in Users : sessions[u].pc = "writing" /\ sessions'[u].pc = "written"
    ]_vars

\* C39 witness: a user selected a policy and a channel and the guild's row was
\* saved with them; the user's next channel select, the third interaction,
\* with no policy select before it, was answered as expired.
C39_Witness ==
  /\ program = "setup"
  /\ \E u \in Users :
       /\ sessions[u].pc = "idle" /\ sessions[u].reply = "expired"
       /\ sessions[u].id = 3
       /\ sessions[u].state.userId = u
       /\ db[sessions[u].guild] = [present |-> TRUE, enabled |-> TRUE,
                                    policyPreset |-> sessions[u].state.policyPreset,
                                    logChannelId |-> sessions[u].logChannelId]
       /\ sessions[u].guild \notin DOMAIN setupState

\* C37: when the Vettly call throws, onMessageCreate deletes nothing, sends no
\* mod log and returns without throwing; the rate-limit slot taken for the
\* message stays consumed, and the call is not made again.
C37_FailedCallHasNoEffect ==
  [][ (program = "bot" /\ last'.step = "threw") =>
        /\ ~last'.deleted /\ ~last'.logged
        /\ requests' = requests
        /\ admits' = admits
        /\ \E h \in Handlers :
              /\ hs[h].pc = "calling" /\ hs[h].guild = last'.guild /\ hs[h].msg = last'.msg
              /\ hs'[h].pc = "idle"
              /\ \A k \in Handlers \ {h} : hs'[k] = hs[k]
    ]_vars

\* C37 witness: a call of a guild has failed; the guild's stored list is still
\* at the cap, the failed call's timestamp included, and no handler is running.
C37_Witness ==
  /\ program = "bot" /\ last.step = "threw"
  /\ last.guild \in DOMAIN requests
  /\ Len(requests[last.guild]) = MaxRequests
  /\ requests[last.guild] = admits[last.guild]
  /\ \A h \in Handlers : hs[h].pc = "idle"

\* C38: a limiter that is swept and a limiter that is never swept, given the
\* same isLimited calls at the same times, return the same answer to every
\* call of every guild: no cleanup() changes the answer of a later isLimited.
C38_SweepTransparency ==
  program = "sweep" =>
    \A i \in 1..Len(answers) : answers[i].swept = answers[i].unswept

\* C38 witness: a sweep has removed from the swept limiter what the other one
\* still stores, and the call made after it was refused by both.
C38_Witness ==
  /\ program = "sweep"
  /\ Len(answers) = MaxSweepCalls
  /\ answers[Len(answers)].swept /\ answers[Len(answers)].unswept
  /\ requests # unswept
  /\ \E i \in 1..Len(answers) : ~answers[i].swept

====
